---------------------------- MODULE Spec2Model ----------------------------
(***************************************************************************)
(* Model of the location extraction and resolution pipeline of             *)
(* src/backend/utils/location_extractor.py: text normalisation, the        *)
(* gazetteer (CSV) matcher, the geocoding provider chain with its process  *)
(* wide OSM_DISABLED breaker and memo cache, resolve_location_by_name and  *)
(* extract_locations_from_answer.                                          *)
(*                                                                         *)
(* Text is a sequence of characters.  A character is a one-letter string;  *)
(* a Latin letter that carries a diacritic is written as its base letter   *)
(* followed by "^" ("a^", "U^"), and the barred D, which has no Unicode    *)
(* decomposition, as "D-" / "d-".  None is the Python None.                *)
(***************************************************************************)
EXTENDS Integers, Sequences, FiniteSets, TLC

\* None where a text (or a parsed number) is expected
None == <<"<None>">>
\* None where a dict (a row, a record) is expected
NoneDict == [none |-> TRUE]

\* ------------------------------------------------------------------------
\* Characters
\* ------------------------------------------------------------------------
LowerAlpha ==
  <<"a","b","c","d","e","f","g","h","i","j","k","l","m",
    "n","o","p","q","r","s","t","u","v","w","x","y","z">>
UpperAlpha ==
  <<"A","B","C","D","E","F","G","H","I","J","K","L","M",
    "N","O","P","Q","R","S","T","U","V","W","X","Y","Z">>
MarkedLower == <<"a^","e^","i^","o^","u^","y^">>
MarkedUpper == <<"A^","E^","I^","O^","U^","Y^">>
MarkedBase  == <<"a","e","i","o","u","y">>
Digits == {"0","1","2","3","4","5","6","7","8","9"}
Whitespace == {" ", "\n"}

Range(s) == {s[i] : i \in DOMAIN s}

\* str.lower() on one character
LowerChar(c) ==
  IF \E i \in DOMAIN UpperAlpha : UpperAlpha[i] = c
    THEN LowerAlpha[CHOOSE i \in DOMAIN UpperAlpha : UpperAlpha[i] = c]
  ELSE IF \E i \in DOMAIN MarkedUpper : MarkedUpper[i] = c
    THEN MarkedLower[CHOOSE i \in DOMAIN MarkedUpper : MarkedUpper[i] = c]
  ELSE IF c = "D-" THEN "d-"
  ELSE c

\* unicodedata.normalize("NFD", c) with the combining marks (category Mn)
\* removed: the base letter of a marked letter, any other character as is.
StripMarkChar(c) ==
  IF \E i \in DOMAIN MarkedLower : MarkedLower[i] = c
    THEN MarkedBase[CHOOSE i \in DOMAIN MarkedLower : MarkedLower[i] = c]
  ELSE IF \E i \in DOMAIN MarkedUpper : MarkedUpper[i] = c
    THEN UpperAlpha[CHOOSE j \in DOMAIN UpperAlpha :
           LowerAlpha[j] = MarkedBase[CHOOSE i \in DOMAIN MarkedUpper : MarkedUpper[i] = c]]
  ELSE c

IsAsciiLowerOrDigit(c) == c \in Range(LowerAlpha) \cup Digits

\* ------------------------------------------------------------------------
\* Strings
\* ------------------------------------------------------------------------
Lower(s) == [i \in DOMAIN s |-> LowerChar(s[i])]
StripMarks(s) == [i \in DOMAIN s |-> StripMarkChar(s[i])]

\* needle in hay
Contains(hay, needle) ==
  \E i \in 0..(Len(hay) - Len(needle)) :
     \A j \in 1..Len(needle) : hay[i + j] = needle[j]

\* hay.find(needle) + 1, 0 when absent
Find(hay, needle) ==
  IF Contains(hay, needle)
    THEN CHOOSE i \in 1..(Len(hay) - Len(needle) + 1) :
           /\ \A j \in 1..Len(needle) : hay[i + j - 1] = needle[j]
           /\ \A k \in 1..(i - 1) : \E j \in 1..Len(needle) : hay[k + j - 1] # needle[j]
    ELSE 0

StartsWith(s, p) ==
  /\ Len(p) <= Len(s)
  /\ \A j \in 1..Len(p) : s[j] = p[j]

\* str.strip()
Strip(s) ==
  LET keep == {i \in DOMAIN s : s[i] \notin Whitespace}
  IN IF keep = {} THEN <<>>
     ELSE LET lo == CHOOSE i \in keep : \A k \in keep : i <= k
              hi == CHOOSE i \in keep : \A k \in keep : i >= k
          IN SubSeq(s, lo, hi)

\* s.split(sep)[0]
BeforeFirst(s, sep) ==
  IF Contains(s, sep) THEN SubSeq(s, 1, Find(s, sep) - 1) ELSE s

\* str.split(): the maximal runs of non-whitespace characters
RECURSIVE SplitWs(_)
SplitWs(s) ==
  IF s = <<>> THEN <<>>
  ELSE IF s[1] \in Whitespace THEN SplitWs(Tail(s))
  ELSE LET stops == {i \in DOMAIN s : s[i] \in Whitespace}
           n == IF stops = {} THEN Len(s) + 1
                ELSE CHOOSE i \in stops : \A k \in stops : i <= k
       IN <<SubSeq(s, 1, n - 1)>> \o SplitWs(SubSeq(s, n, Len(s)))

\* re.split on a set of one-character separators
RECURSIVE SplitOnChars(_, _)
SplitOnChars(s, seps) ==
  LET stops == {i \in DOMAIN s : s[i] \in seps}
  IN IF stops = {} THEN <<s>>
     ELSE LET n == CHOOSE i \in stops : \A k \in stops : i <= k
          IN <<SubSeq(s, 1, n - 1)>> \o SplitOnChars(SubSeq(s, n + 1, Len(s)), seps)

\* " ".join(parts)
RECURSIVE JoinSpace(_)
JoinSpace(parts) ==
  IF parts = <<>> THEN <<>>
  ELSE IF Len(parts) = 1 THEN parts[1]
  ELSE parts[1] \o <<" ">> \o JoinSpace(Tail(parts))

\* ------------------------------------------------------------------------
\* Text normalisation helpers
\* ------------------------------------------------------------------------
\* the normalisation with the whitespace collapsed and trimmed before the
\* characters outside [a-z0-9\s] are replaced
normalize_text_collapse_first(s) ==
  LET folded == JoinSpace(SplitWs(StripMarks(Lower(s))))
  IN [i \in DOMAIN folded |->
        IF IsAsciiLowerOrDigit(folded[i]) \/ folded[i] \in Whitespace
          THEN folded[i] ELSE " "]

\* normalize_text: lowercase, strip accents, every character outside
\* [a-z0-9\s] becomes a space, whitespace runs collapse, ends are trimmed.
normalize_text(s) ==
  LET folded == StripMarks(Lower(s))
      spaced == [i \in DOMAIN folded |->
                   IF IsAsciiLowerOrDigit(folded[i]) \/ folded[i] \in Whitespace
                     THEN folded[i] ELSE " "]
  IN JoinSpace(SplitWs(spaced))

\* normalize_for_match: lowercase and strip accents, nothing else
normalize_for_match(s) == StripMarks(Lower(s))

tokenize(s) == SplitWs(normalize_text(s))

\* ------------------------------------------------------------------------
\* Numbers read from text
\* ------------------------------------------------------------------------
IsDecimalText(m) ==
  /\ m # <<>>
  /\ \A i \in DOMAIN m : m[i] \in Digits \cup {"."}
  /\ Cardinality({i \in DOMAIN m : m[i] = "."}) <= 1
  /\ \E i \in DOMAIN m : m[i] \in Digits

Unsigned(s) == IF s # <<>> /\ s[1] \in {"+", "-"} THEN Tail(s) ELSE s

\* The texts float() accepts: an optional sign, then nan / inf / infinity, or
\* a decimal number with an optional exponent.
IsFloatText(s) ==
  LET u == Unsigned(s)
      l == Lower(u)
      es == {i \in DOMAIN l : l[i] = "e"}
  IN \/ l \in {<<"n","a","n">>, <<"i","n","f">>,
               <<"i","n","f","i","n","i","t","y">>}
     \/ IsDecimalText(u)
     \/ /\ Cardinality(es) = 1
        /\ LET e == CHOOSE i \in es : TRUE
               ex == Unsigned(SubSeq(u, e + 1, Len(u)))
           IN /\ IsDecimalText(SubSeq(u, 1, e - 1))
              /\ ex # <<>>
              /\ \A i \in DOMAIN ex : ex[i] \in Digits

\* parse_float: None for None, else str(value).strip() with every "," turned
\* into ".", read as a float; None when float() raises ValueError.  A parsed
\* number is represented by the text it was read from.
parse_float(value) ==
  IF value = None THEN None
  ELSE LET t == Strip(value)
           s == [i \in DOMAIN t |-> IF t[i] = "," THEN "." ELSE t[i]]
       IN IF IsFloatText(s) THEN s ELSE None

\* dict.get(key): None for a missing key
Get(row, key) == IF key \in DOMAIN row THEN row[key] ELSE None

\* Python truthiness of a str-or-None value
Truthy(v) == v # None /\ v # <<>>

\* ------------------------------------------------------------------------
\* Gazetteer rows
\* ------------------------------------------------------------------------
NAME_COLUMNS == <<"TenDiaDanh", "enDiaDanh", "DiaDanh">>
lat_keys == <<"lat", "Lat", "LAT", "latitude", "Latitude", "LATITUDE">>
lng_keys == <<"lng", "Lng", "lon", "Lon", "LON", "long", "Long", "longitude", "Longitude">>

\* next(parse_float(row.get(k)) for k in keys if k in row and it parses)
FirstParsed(row, keys) ==
  LET ok == {i \in DOMAIN keys :
               keys[i] \in DOMAIN row /\ parse_float(Get(row, keys[i])) # None}
  IN IF ok = {} THEN None
     ELSE parse_float(row[keys[CHOOSE i \in ok : \A k \in ok : i <= k]])

get_lat_lng(row) == <<FirstParsed(row, lat_keys), FirstParsed(row, lng_keys)>>

get_row_name(row) ==
  LET ok == {i \in DOMAIN NAME_COLUMNS : Truthy(Get(row, NAME_COLUMNS[i]))}
  IN IF ok = {} THEN <<>>
     ELSE row[NAME_COLUMNS[CHOOSE i \in ok : \A k \in ok : i <= k]]

\* ------------------------------------------------------------------------
\* difflib.SequenceMatcher(None, a, b).ratio()
\* ------------------------------------------------------------------------
Min(x, y) == IF x <= y THEN x ELSE y

\* length of the common run starting at a[i] and b[j], inside a[..ahi], b[..bhi]
RunLen(a, i, ahi, b, j, bhi) ==
  LET lim == Min(ahi - i + 1, bhi - j + 1)
  IN CHOOSE k \in 0..lim :
       /\ \A d \in 0..(k - 1) : a[i + d] = b[j + d]
       /\ k = lim \/ a[i + k] # b[j + k]

\* find_longest_match: the longest block, the one starting earliest in a and,
\* among those, earliest in b.  <<i, j, k>>, k = 0 when nothing matches.
LongestMatch(a, alo, ahi, b, blo, bhi) ==
  LET pairs == (alo..ahi) \X (blo..bhi)
      len == [p \in pairs |-> RunLen(a, p[1], ahi, b, p[2], bhi)]
      top == CHOOSE k \in {len[p] : p \in pairs} : \A q \in pairs : len[q] <= k
      tops == {p \in pairs : len[p] = top}
      best == CHOOSE p \in tops :
                \A q \in tops : p[1] < q[1] \/ (p[1] = q[1] /\ p[2] <= q[2])
  IN IF pairs = {} THEN <<alo, blo, 0>> ELSE <<best[1], best[2], top>>

\* sum of the sizes of get_matching_blocks(): the longest block, then the
\* same to its left and to its right
RECURSIVE MatchedSize(_, _, _, _, _, _)
MatchedSize(a, alo, ahi, b, blo, bhi) ==
  LET m == LongestMatch(a, alo, ahi, b, blo, bhi)
  IN IF m[3] = 0 THEN 0
     ELSE m[3]
          + MatchedSize(a, alo, m[1] - 1, b, blo, m[2] - 1)
          + MatchedSize(a, m[1] + m[3], ahi, b, m[2] + m[3], bhi)

\* ratio() = 2.0 * M / T, 1.0 when both are empty; the fraction <<num, den>>
ratio(a, b) ==
  IF Len(a) + Len(b) = 0 THEN <<1, 1>>
  ELSE <<2 * MatchedSize(a, 1, Len(a), b, 1, Len(b)), Len(a) + Len(b)>>

\* comparison of two fractions with positive denominators
FracGt(x, y) == x[1] * y[2] > y[1] * x[2]
FracGe(x, y) == x[1] * y[2] >= y[1] * x[2]

\* ------------------------------------------------------------------------
\* find_best_match
\* ------------------------------------------------------------------------
generic_prefixes ==
  { <<"k","h","u">>, <<"d","i">>, <<"t","i","c","h">>, <<"d","a","n","h">>,
    <<"t","h","a","n","g">>, <<"d","u">>, <<"l","i","c","h">>, <<"v","u","n","g">> }

\* Strategy 1: all tokens of the name exist in the row name
StrictMatch(name_tokens, row_tokens) ==
  name_tokens # {} /\ name_tokens \subseteq row_tokens

\* FlexibleMatch with the threshold at 50% instead of 80%
FlexibleMatch_Half(name_tokens, row_tokens) ==
  LET name_core_tokens == name_tokens \ generic_prefixes
      row_core_tokens == row_tokens \ generic_prefixes
      overlap == Cardinality(name_core_tokens \cap row_core_tokens)
      min_overlap == Min(Cardinality(name_core_tokens), Cardinality(row_core_tokens))
  IN /\ name_core_tokens # {}
     /\ row_core_tokens # {}
     /\ 10 * overlap >= 5 * min_overlap

\* Strategy 2: the core (non-generic) tokens overlap by at least 80% of the
\* smaller core set
FlexibleMatch(name_tokens, row_tokens) ==
  LET name_core_tokens == name_tokens \ generic_prefixes
      row_core_tokens == row_tokens \ generic_prefixes
      overlap == Cardinality(name_core_tokens \cap row_core_tokens)
      min_overlap == Min(Cardinality(name_core_tokens), Cardinality(row_core_tokens))
  IN /\ name_core_tokens # {}
     /\ row_core_tokens # {}
     /\ 10 * overlap >= 8 * min_overlap

\* the body of the loop over rows: does this row join strict_candidates
RowAccepted(name_tokens, row) ==
  LET row_name == get_row_name(row)
      row_tokens == Range(tokenize(row_name))
  IN /\ row_name # <<>>
     /\ row_tokens # {}
     /\ IF StrictMatch(name_tokens, row_tokens) THEN TRUE
        ELSE FlexibleMatch(name_tokens, row_tokens)

strict_candidates(name, rows) ==
  LET name_tokens == Range(tokenize(name))
  IN SelectSeq(rows, LAMBDA row : RowAccepted(name_tokens, row))

RowScore(name, row) == ratio(normalize_text(name), normalize_text(get_row_name(row)))

\* the loop that keeps the first candidate with the strictly greatest score,
\* starting from best_row = None, best_score = 0.0
RECURSIVE BestCandidate(_, _, _, _)
BestCandidate(name, cands, best_row, best_score) ==
  IF cands = <<>> THEN [row |-> best_row, score |-> best_score]
  ELSE LET score == RowScore(name, cands[1])
       IN IF FracGt(score, best_score)
            THEN BestCandidate(name, Tail(cands), cands[1], score)
            ELSE BestCandidate(name, Tail(cands), best_row, best_score)

\* Threshold without the single-candidate shortcut
Threshold_AlwaysMin(cands, best, min_score) ==
  IF best.row = NoneDict THEN NoneDict
  ELSE IF FracGe(best.score, min_score) THEN best.row
  ELSE NoneDict

\* the final decision: a single candidate is trusted, otherwise the best
\* score must reach min_score
Threshold(cands, best, min_score) ==
  IF best.row = NoneDict THEN NoneDict
  ELSE IF Len(cands) = 1 THEN best.row
  ELSE IF FracGe(best.score, min_score) THEN best.row
  ELSE NoneDict

find_best_match(name, rows, min_score) ==
  LET cands == strict_candidates(name, rows)
  IN IF cands = <<>> THEN NoneDict
     ELSE Threshold(cands, BestCandidate(name, cands, NoneDict, <<0, 1>>), min_score)

\* ------------------------------------------------------------------------
\* Module constants of location_extractor.py
\* ------------------------------------------------------------------------
VIETNAM_PROVINCES ==
  <<
    <<"A","n"," ","G","i","a","n","g">>,
    <<"B","a^"," ","R","i^","a"," ","-"," ","V","u^","n","g"," ","T","a^","u">>,
    <<"B","a^","c"," ","L","i","e^","u">>,
    <<"B","a^","c"," ","G","i","a","n","g">>,
    <<"B","a^","c"," ","K","a^","n">>,
    <<"B","a^","c"," ","N","i","n","h">>,
    <<"B","e^","n"," ","T","r","e">>,
    <<"B","i^","n","h"," ","D","u^","o^","n","g">>,
    <<"B","i^","n","h"," ","D-","i^","n","h">>,
    <<"B","i^","n","h"," ","P","h","u^","o^","c">>,
    <<"B","i^","n","h"," ","T","h","u","a^","n">>,
    <<"C","a^"," ","M","a","u">>,
    <<"C","a","o"," ","B","a^","n","g">>,
    <<"C","a^","n"," ","T","h","o^">>,
    <<"D-","a^"," ","N","a^","n","g">>,
    <<"D-","a^","k"," ","L","a^","k">>,
    <<"D-","a^","k"," ","N","o^","n","g">>,
    <<"D-","i","e^","n"," ","B","i","e^","n">>,
    <<"D-","o^","n","g"," ","N","a","i">>,
    <<"D-","o^","n","g"," ","T","h","a^","p">>,
    <<"G","i","a"," ","L","a","i">>,
    <<"H","a^"," ","G","i","a","n","g">>,
    <<"H","a^"," ","N","a","m">>,
    <<"H","a^"," ","N","o^","i">>,
    <<"H","a^"," ","T","i^","n","h">>,
    <<"H","a^","i"," ","D","u^","o^","n","g">>,
    <<"H","a^","i"," ","P","h","o^","n","g">>,
    <<"H","a^","u"," ","G","i","a","n","g">>,
    <<"H","o^","a"," ","B","i^","n","h">>,
    <<"H","u^","n","g"," ","Y","e^","n">>,
    <<"K","h","a^","n","h"," ","H","o^","a">>,
    <<"K","i","e^","n"," ","G","i","a","n","g">>,
    <<"K","o","n"," ","T","u","m">>,
    <<"L","a","i"," ","C","h","a^","u">>,
    <<"L","a^","n","g"," ","S","o^","n">>,
    <<"L","a^","o"," ","C","a","i">>,
    <<"L","a^","m"," ","D-","o^","n","g">>,
    <<"L","o","n","g"," ","A","n">>,
    <<"N","a","m"," ","D-","i^","n","h">>,
    <<"N","g","h","e^"," ","A","n">>,
    <<"N","i","n","h"," ","B","i^","n","h">>,
    <<"N","i","n","h"," ","T","h","u","a^","n">>,
    <<"P","h","u^"," ","T","h","o^">>,
    <<"P","h","u^"," ","Y","e^","n">>,
    <<"Q","u","a^","n","g"," ","B","i^","n","h">>,
    <<"Q","u","a^","n","g"," ","N","a","m">>,
    <<"Q","u","a^","n","g"," ","N","g","a^","i">>,
    <<"Q","u","a^","n","g"," ","N","i","n","h">>,
    <<"Q","u","a^","n","g"," ","T","r","i^">>,
    <<"S","o^","c"," ","T","r","a^","n","g">>,
    <<"S","o^","n"," ","L","a">>,
    <<"T","a^","y"," ","N","i","n","h">>,
    <<"T","h","a^","i"," ","B","i^","n","h">>,
    <<"T","h","a^","i"," ","N","g","u","y","e^","n">>,
    <<"T","h","a","n","h"," ","H","o^","a">>,
    <<"T","h","u^","a"," ","T","h","i","e^","n"," ","H","u","e^">>,
    <<"T","i","e^","n"," ","G","i","a","n","g">>,
    <<"T","h","a^","n","h"," ","p","h","o^"," ","H","o^"," ","C","h","i^"," ","M","i","n","h">>,
    <<"T","r","a^"," ","V","i","n","h">>,
    <<"T","u","y","e^","n"," ","Q","u","a","n","g">>,
    <<"V","i^","n","h"," ","L","o","n","g">>,
    <<"V","i^","n","h"," ","P","h","u^","c">>,
    <<"Y","e^","n"," ","B","a^","i">>
  >>

\* the (alias, canonical) pairs of the dict, in insertion order
PROVINCE_SYNONYMS ==
  <<
    <<<<"S","a^","i"," ","G","o^","n">>,
      <<"T","h","a^","n","h"," ","p","h","o^"," ","H","o^"," ","C","h","i^"," ","M","i","n","h">>>>,
    <<<<"T","P"," ","H","o^"," ","C","h","i^"," ","M","i","n","h">>,
      <<"T","h","a^","n","h"," ","p","h","o^"," ","H","o^"," ","C","h","i^"," ","M","i","n","h">>>>,
    <<<<"T","P","."," ","H","o^"," ","C","h","i^"," ","M","i","n","h">>,
      <<"T","h","a^","n","h"," ","p","h","o^"," ","H","o^"," ","C","h","i^"," ","M","i","n","h">>>>,
    <<<<"T","P"," ","H","C","M">>,
      <<"T","h","a^","n","h"," ","p","h","o^"," ","H","o^"," ","C","h","i^"," ","M","i","n","h">>>>,
    <<<<"H","C","M">>,
      <<"T","h","a^","n","h"," ","p","h","o^"," ","H","o^"," ","C","h","i^"," ","M","i","n","h">>>>,
    <<<<"V","u^","n","g"," ","T","a^","u">>,
      <<"B","a^"," ","R","i^","a"," ","-"," ","V","u^","n","g"," ","T","a^","u">>>>,
    <<<<"B","R","V","T">>,
      <<"B","a^"," ","R","i^","a"," ","-"," ","V","u^","n","g"," ","T","a^","u">>>>
  >>

VIETNAM_TOURISM_CITIES ==
  <<
    <<"D-","a^"," ","L","a^","t">>,
    <<"N","h","a"," ","T","r","a","n","g">>,
    <<"H","o^","i"," ","A","n">>,
    <<"H","u","e^">>,
    <<"S","a"," ","P","a">>,
    <<"P","h","a","n"," ","T","h","i","e^","t">>,
    <<"P","h","u^"," ","Q","u","o^","c">>,
    <<"V","u^","n","g"," ","T","a^","u">>,
    <<"D-","a^"," ","N","a^","n","g">>,
    <<"H","a^"," ","L","o","n","g">>
  >>

DEFAULT_OSM_CONTEXT == <<"V","i","e^","t"," ","N","a","m">>

street_keywords ==
  <<
    <<"d-","u^","o^","n","g">>,
    <<"d","u","o","n","g">>,
    <<"p","h","o^">>,
    <<"p","h","o">>,
    <<"s","t","r","e","e","t">>,
    <<"s","t",".">>,
    <<"p","h","u^","o^","n","g">>,
    <<"p","h","u","o","n","g">>,
    <<"q","u","a^","n">>,
    <<"q","u","a","n">>,
    <<"t","h","a^","n","h"," ","p","h","o^">>,
    <<"t","p",".">>,
    <<"t","p"," ">>,
    <<"c","i","t","y">>,
    <<"w","a","r","d">>,
    <<"d","i","s","t","r","i","c","t">>
  >>

prefixes ==
  <<
    <<"k","h","u"," ","d","u"," ","l","i","c","h">>,
    <<"q","u","a","n"," ","t","h","e">>,
    <<"d","a","n","h"," ","t","h","a","n","g">>,
    <<"d","i"," ","t","i","c","h">>,
    <<"v","u","o","n"," ","q","u","o","c"," ","g","i","a">>,
    <<"k","h","u"," ","b","a","o"," ","t","o","n">>,
    <<"t","r","u","n","g"," ","t","a","m">>,
    <<"q","u","a","n","g"," ","t","r","u","o","n","g">>,
    <<"p","h","o"," ","c","o">>,
    <<"n","h","a"," ","t","h","o">>,
    <<"c","h","u","a">>,
    <<"d","e","n">>,
    <<"l","a","n","g">>,
    <<"b","a","n">>,
    <<"d","o","n","g">>,
    <<"h","a","n","g">>,
    <<"v","i","n","h">>,
    <<"c","o","n","g"," ","v","i","e","n">>
  >>

old_quarter == {<<"p","h","o^"," ","c","o^">>, <<"p","h","o"," ","c","o">>}

viet_nam == <<"v","i","e","t"," ","n","a","m">>


\* ------------------------------------------------------------------------
\* Region hint and address heuristic
\* ------------------------------------------------------------------------
\* first element of a sequence of texts whose normalised form occurs in the
\* normalised text; 0 when none does
FirstOccurring(text_norm, texts) ==
  LET hit == {i \in DOMAIN texts :
                /\ normalize_for_match(texts[i]) # <<>>
                /\ Contains(text_norm, normalize_for_match(texts[i]))}
  IN IF hit = {} THEN 0 ELSE CHOOSE i \in hit : \A k \in hit : i <= k

\* the scan with the tourism cities looked up before the provinces
extract_region_hint_city_first(answer) ==
  IF ~Truthy(answer) THEN None
  ELSE LET text_norm == normalize_for_match(answer)
           prov == FirstOccurring(text_norm, VIETNAM_PROVINCES)
           alias == FirstOccurring(text_norm,
                      [i \in DOMAIN PROVINCE_SYNONYMS |-> PROVINCE_SYNONYMS[i][1]])
           city == FirstOccurring(text_norm, VIETNAM_TOURISM_CITIES)
       IN IF city # 0 THEN VIETNAM_TOURISM_CITIES[city]
          ELSE IF prov # 0 THEN VIETNAM_PROVINCES[prov]
          ELSE IF alias # 0 THEN PROVINCE_SYNONYMS[alias][2]
          ELSE None

extract_region_hint_province(answer) ==
  IF ~Truthy(answer) THEN None
  ELSE LET text_norm == normalize_for_match(answer)
           prov == FirstOccurring(text_norm, VIETNAM_PROVINCES)
           alias == FirstOccurring(text_norm,
                      [i \in DOMAIN PROVINCE_SYNONYMS |-> PROVINCE_SYNONYMS[i][1]])
           city == FirstOccurring(text_norm, VIETNAM_TOURISM_CITIES)
       IN IF prov # 0 THEN VIETNAM_PROVINCES[prov]
          ELSE IF alias # 0 THEN PROVINCE_SYNONYMS[alias][2]
          ELSE IF city # 0 THEN VIETNAM_TOURISM_CITIES[city]
          ELSE None

\* the heuristic with the old-quarter exception tested before the digits
looks_like_address_quarter_first(query) ==
  IF ~Truthy(query) THEN FALSE
  ELSE LET q == Lower(query)
       IN IF \E p \in old_quarter : Contains(q, p) THEN FALSE
          ELSE IF \E i \in DOMAIN q : q[i] \in Digits THEN TRUE
          ELSE \E i \in DOMAIN street_keywords : Contains(q, street_keywords[i])

looks_like_address(query) ==
  IF ~Truthy(query) THEN FALSE
  ELSE LET q == Lower(query)
       IN IF \E i \in DOMAIN q : q[i] \in Digits THEN TRUE
          ELSE IF \E p \in old_quarter : Contains(q, p) THEN FALSE
          ELSE \E i \in DOMAIN street_keywords : Contains(q, street_keywords[i])

\* ------------------------------------------------------------------------
\* search_osm_location: the pure parts
\* ------------------------------------------------------------------------
\* the nested helper _norm: strip accents, lowercase, trim
_norm(text) == IF ~Truthy(text) THEN <<>> ELSE Strip(Lower(StripMarks(text)))

\* region_parts_norm: the hint split on , / | -, parts shorter than two
\* characters and the bare country dropped
region_parts(region_hint) ==
  IF ~Truthy(region_hint) THEN <<>>
  ELSE LET raw_parts == SplitOnChars(region_hint, {",", "/", "|", "-"})
           stripped == [i \in DOMAIN raw_parts |-> Strip(raw_parts[i])]
           kept == SelectSeq(stripped, LAMBDA p : Len(p) >= 2 /\ _norm(p) # viet_nam)
       IN [i \in DOMAIN kept |-> _norm(kept[i])]

\* list(dict.fromkeys(xs)): first occurrences, in order
RECURSIVE Unique(_)
Unique(xs) ==
  IF xs = <<>> THEN <<>>
  ELSE <<xs[1]>> \o Unique(SelectSeq(Tail(xs), LAMBDA x : x # xs[1]))

\* the variants with the part before "," tried before the other parts
query_variants_comma_first(name) ==
  LET norm_name == _norm(name)
      hit == {i \in DOMAIN prefixes : StartsWith(norm_name, prefixes[i] \o <<" ">>)}
      first == CHOOSE i \in hit : \A k \in hit : i <= k
      cleaned == IF hit = {} THEN <<>>
                 ELSE <<Strip(SubSeq(name, Len(prefixes[first]) + 2, Len(name)))>>
      dash3 == IF Contains(name, <<" ", "-", " ">>)
                 THEN <<Strip(BeforeFirst(name, <<" ", "-", " ">>))>> ELSE <<>>
      dash == IF Contains(name, <<"-">>)
                 THEN <<Strip(BeforeFirst(name, <<"-">>))>> ELSE <<>>
      comma == IF Contains(name, <<",">>)
                 THEN <<Strip(BeforeFirst(name, <<",">>))>> ELSE <<>>
  IN Unique(<<name>> \o comma \o cleaned \o dash3 \o dash)

\* the query variants of a name, in order: raw, prefix stripped, before
\* " - ", before "-", before ","
query_variants(name) ==
  LET norm_name == _norm(name)
      hit == {i \in DOMAIN prefixes : StartsWith(norm_name, prefixes[i] \o <<" ">>)}
      first == CHOOSE i \in hit : \A k \in hit : i <= k
      cleaned == IF hit = {} THEN <<>>
                 ELSE <<Strip(SubSeq(name, Len(prefixes[first]) + 2, Len(name)))>>
      dash3 == IF Contains(name, <<" ", "-", " ">>)
                 THEN <<Strip(BeforeFirst(name, <<" ", "-", " ">>))>> ELSE <<>>
      dash == IF Contains(name, <<"-">>)
                 THEN <<Strip(BeforeFirst(name, <<"-">>))>> ELSE <<>>
      comma == IF Contains(name, <<",">>)
                 THEN <<Strip(BeforeFirst(name, <<",">>))>> ELSE <<>>
  IN Unique(<<name>> \o cleaned \o dash3 \o dash \o comma)

\* the text with the hint in place of the country context
query_text_of_hint_only(q, context, region_hint) ==
  LET query_context ==
        IF Truthy(region_hint) THEN region_hint
        ELSE IF Truthy(context) THEN context ELSE DEFAULT_OSM_CONTEXT
  IN IF Truthy(query_context) THEN q \o <<",", " ">> \o query_context ELSE q

\* the text sent to a provider for variant q
query_text_of(q, context, region_hint) ==
  LET query_context ==
        IF Truthy(region_hint) THEN region_hint \o <<",", " ">> \o DEFAULT_OSM_CONTEXT
        ELSE IF Truthy(context) THEN context ELSE DEFAULT_OSM_CONTEXT
  IN IF Truthy(query_context) THEN q \o <<",", " ">> \o query_context ELSE q

\* a provider result: [lat, lon, display_name, address], address the
\* sequence of the values of the item's address dict
item_addr_norm(item) ==
  LET display == IF Truthy(item.display_name) THEN item.display_name ELSE <<>>
      vals == SelectSeq(item.address, LAMBDA v : Truthy(v))
  IN _norm(JoinSpace(<<display>> \o vals))

\* region_ok with any() in place of all()
region_ok_any(item, parts) ==
  \E i \in DOMAIN parts : Contains(item_addr_norm(item), parts[i])

\* every part of the region hint occurs in the item's address text
region_ok(item, parts) ==
  \A i \in DOMAIN parts : Contains(item_addr_norm(item), parts[i])

\* does the loop over the returned items take this item
item_accepted(item, parts) ==
  /\ parse_float(item.lat) # None
  /\ parse_float(item.lon) # None
  /\ (parts # <<>> => region_ok(item, parts))

\* chosen_item: the first accepted item, NoneDict when there is none
choose_item(items, parts) ==
  LET ok == {i \in DOMAIN items : item_accepted(items[i], parts)}
  IN IF ok = {} THEN NoneDict ELSE items[CHOOSE i \in ok : \A k \in ok : i <= k]

\* osm_record named after the variant that matched
osm_record_variant(chosen_item, q, original_name, source_label) ==
  [ name |-> q,
    address |-> IF Truthy(chosen_item.display_name) THEN chosen_item.display_name ELSE <<>>,
    lat |-> parse_float(chosen_item.lat),
    lng |-> parse_float(chosen_item.lon),
    description |-> None,
    imageUrl |-> None,
    source |-> source_label ]

\* the record with the fallback provider as its source, whoever answered
osm_record_fallback_label(chosen_item, q, original_name, source_label) ==
  [ name |-> IF Truthy(original_name) THEN original_name ELSE q,
    address |-> IF Truthy(chosen_item.display_name) THEN chosen_item.display_name ELSE <<>>,
    lat |-> parse_float(chosen_item.lat),
    lng |-> parse_float(chosen_item.lon),
    description |-> None,
    imageUrl |-> None,
    source |-> "osm_fallback" ]

\* the record search_osm_location returns for a chosen item
osm_record(chosen_item, q, original_name, source_label) ==
  [ name |-> IF Truthy(original_name) THEN original_name ELSE q,
    address |-> IF Truthy(chosen_item.display_name) THEN chosen_item.display_name ELSE <<>>,
    lat |-> parse_float(chosen_item.lat),
    lng |-> parse_float(chosen_item.lon),
    description |-> None,
    imageUrl |-> None,
    source |-> source_label ]

\* the record resolve_location_by_name builds from a gazetteer row
csv_record(csv_row) ==
  [ name |-> get_row_name(csv_row),
    address |-> IF Truthy(Get(csv_row, "DiaChi")) THEN csv_row["DiaChi"] ELSE <<>>,
    lat |-> get_lat_lng(csv_row)[1],
    lng |-> get_lat_lng(csv_row)[2],
    description |-> IF Truthy(Get(csv_row, "NoiDung")) THEN csv_row["NoiDung"] ELSE <<>>,
    imageUrl |-> IF Get(csv_row, "ImageURL") \in {None, <<>>, <<"N", "/", "A">>}
                   THEN None ELSE csv_row["ImageURL"],
    source |-> "csv" ]

\* ------------------------------------------------------------------------
\* extract_candidate_names
\* ------------------------------------------------------------------------
\* Pattern 1, re.finditer(r"\*\*(.+?)\*\*", answer): the groups of the
\* non-overlapping matches, left to right.  A group is the shortest non-empty
\* text without a line break between two "**".
RECURSIVE BoldGroups(_, _)
BoldGroups(s, i) ==
  IF i + 4 > Len(s) THEN <<>>
  ELSE IF ~(s[i] = "*" /\ s[i + 1] = "*") THEN BoldGroups(s, i + 1)
  ELSE LET closes == {j \in (i + 3)..(Len(s) - 1) :
                        /\ s[j] = "*" /\ s[j + 1] = "*"
                        /\ \A k \in (i + 2)..(j - 1) : s[k] # "\n"}
       IN IF closes = {} THEN BoldGroups(s, i + 1)
          ELSE LET j == CHOOSE c \in closes : \A k \in closes : c <= k
               IN <<SubSeq(s, i + 2, j - 1)>> \o BoldGroups(s, j + 2)

\* str.rstrip(":")
RECURSIVE RStripColon(_)
RStripColon(s) ==
  IF s # <<>> /\ s[Len(s)] = ":" THEN RStripColon(SubSeq(s, 1, Len(s) - 1)) ELSE s

\* the loop "if name and name not in candidates: candidates.append(name)"
RECURSIVE AppendNew(_, _)
AppendNew(candidates, found) ==
  IF found = <<>> THEN candidates
  ELSE LET name == found[1]
       IN IF name # <<>> /\ \A i \in DOMAIN candidates : candidates[i] # name
            THEN AppendNew(Append(candidates, name), Tail(found))
            ELSE AppendNew(candidates, Tail(found))

\* re.sub(r"^\d+[).\s-]+", "", name): a leading number with its separators
StripNumbering(name) ==
  LET nd == CHOOSE n \in 0..Len(name) :
              /\ \A k \in 1..n : name[k] \in Digits
              /\ n = Len(name) \/ name[n + 1] \notin Digits
      seps == {")", ".", "-"} \cup Whitespace
      ns == CHOOSE n \in 0..(Len(name) - nd) :
              /\ \A k \in 1..n : name[nd + k] \in seps
              /\ nd + n = Len(name) \/ name[nd + n + 1] \notin seps
  IN IF nd >= 1 /\ ns >= 1 THEN SubSeq(name, nd + ns + 1, Len(name)) ELSE name

\* the final cleanup pass: is the candidate kept
candidate_kept(name) ==
  LET base_for_len == Strip(BeforeFirst(Strip(StripNumbering(name)), <<"(">>))
  IN /\ Len(base_for_len) >= 3
     /\ Len(SplitWs(base_for_len)) <= 6
     /\ Len(name) <= 80

\* The answers of the model are runs of "**name**" spans: patterns 2 to 6
\* (label lines, keyword + proper noun, context words, "va" pairs, quotes,
\* numbered items) match nothing in them, so the candidates are those of
\* pattern 1, deduplicated, after the cleanup pass.
extract_candidate_names(answer) ==
  LET groups == BoldGroups(answer, 1)
      found == [i \in DOMAIN groups |-> RStripColon(Strip(groups[i]))]
  IN SelectSeq(AppendNew(<<>>, found), candidate_kept)

\* ------------------------------------------------------------------------
\* extract_locations_from_answer: the specificity post-filter
\* ------------------------------------------------------------------------
generic_patterns ==
  <<
    <<"T","h","a^","n","h"," ","p","h","o^"," ","H","o^"," ","C","h","i^"," ","M","i","n","h">>,
    <<"H","o^"," ","C","h","i^"," ","M","i","n","h">>,
    <<"S","a^","i"," ","G","o^","n">>,
    <<"H","a^"," ","N","o^","i">>,
    <<"D-","a^"," ","N","a^","n","g">>,
    <<"H","a^","i"," ","P","h","o^","n","g">>,
    <<"C","a^","n"," ","T","h","o^">>,
    <<"B","i","e^","n"," ","H","o^","a">>,
    <<"N","h","a"," ","T","r","a","n","g">>,
    <<"H","u","e^">>,
    <<"B","u","o^","n"," ","M","a"," ","T","h","u","o^","t">>,
    <<"Q","u","y"," ","N","h","o^","n">>,
    <<"V","u^","n","g"," ","T","a^","u">>,
    <<"D-","a^"," ","L","a^","t">>,
    <<"H","o^","i"," ","A","n">>
  >>

landmark_keywords ==
  <<
    <<"C","h","u^","a">>,
    <<"D-","e^","n">>,
    <<"B","a^","o"," ","t","a^","n","g">>,
    <<"N","h","a^"," ","t","h","o^">>,
    <<"D","i","n","h">>,
    <<"L","a^","n","g">>,
    <<"T","h","a^","p">>,
    <<"C","u","n","g"," ","d-","i","e^","n">>,
    <<"P","h","o^"," ","c","o^">>,
    <<"C","h","o^">>,
    <<"V","i^","n","h">>,
    <<"H","a","n","g">>,
    <<"D-","o^","n","g">>
  >>


has_keyword(original_candidate) ==
  \E i \in DOMAIN landmark_keywords : Contains(original_candidate, landmark_keywords[i])

is_generic(original_candidate) ==
  \E i \in DOMAIN generic_patterns :
     \/ Contains(Lower(original_candidate), Lower(generic_patterns[i]))
     \/ Contains(Lower(generic_patterns[i]), Lower(original_candidate))

\* matched is the list of [loc, cand]: a record and its _original_candidate.
\* "if len(matched) > 1" and the any() over the original candidates
has_landmark_keyword(matched) ==
  Len(matched) > 1 /\ \E i \in DOMAIN matched : has_keyword(matched[i].cand)

\* the filter loop without its guard against an empty result
smart_filter_unguarded(matched) ==
  SelectSeq(matched, LAMBDA m : has_keyword(m.cand) \/ ~is_generic(m.cand))

\* the filter loop with the landmark records moved to the front
smart_filter_landmarks_first(matched) ==
  SelectSeq(matched, LAMBDA m : has_keyword(m.cand))
  \o SelectSeq(matched, LAMBDA m : ~has_keyword(m.cand) /\ ~is_generic(m.cand))

\* the filter loop, run when a landmark keyword was seen: "if filtered:"
smart_filter(matched) ==
  LET filtered == SelectSeq(matched,
                            LAMBDA m : has_keyword(m.cand) \/ ~is_generic(m.cand))
  IN IF filtered # <<>> THEN filtered ELSE matched

\* deduplication by the raw candidate instead of the resolved name
resolved_name_raw(location_data, name) == name

\* the key the seen_names set is asked for: location_data.get("name") or name
resolved_name(location_data, name) ==
  IF Truthy(location_data.name) THEN location_data.name ELSE name

\* ------------------------------------------------------------------------
\* The memo cache of search_osm_location: functools.lru_cache(maxsize=256),
\* a sequence of [key, value], least recently used first
\* ------------------------------------------------------------------------
CacheMaxSize == 256

CacheIndex(cache, key) ==
  IF \E i \in DOMAIN cache : cache[i].key = key
    THEN CHOOSE i \in DOMAIN cache : cache[i].key = key
    ELSE 0

\* a hit makes the entry the most recently used
CacheTouch(cache, i) ==
  SubSeq(cache, 1, i - 1) \o SubSeq(cache, i + 1, Len(cache)) \o <<cache[i]>>

\* a memo that never evicts
CacheInsert_unbounded(cache, key, value) ==
  IF CacheIndex(cache, key) # 0 THEN cache
  ELSE Append(cache, [key |-> key, value |-> value])

\* storing the result of a finished call: nothing when the key was stored
\* meanwhile, else the oldest entry goes when the cache is full
CacheInsert(cache, key, value) ==
  IF CacheIndex(cache, key) # 0 THEN cache
  ELSE IF Len(cache) >= CacheMaxSize
    THEN Append(Tail(cache), [key |-> key, value |-> value])
    ELSE Append(cache, [key |-> key, value |-> value])

\* a memo key that leaves the region hint out
CacheKey_no_hint(name, region_hint) == <<name, DEFAULT_OSM_CONTEXT, name>>

\* the arguments of a search_osm_location call as resolve_location_by_name
\* makes it: (name, context, region_hint, original_name)
CacheKey(name, region_hint) == <<name, DEFAULT_OSM_CONTEXT, region_hint, name>>

\* ------------------------------------------------------------------------
\* Texts of the model
\* ------------------------------------------------------------------------
\* "Ho Guom"
T_HoGuom == <<"H","o^"," ","G","u^","o^","m">>
\* "Guom"
T_Guom == <<"G","u^","o^","m">>
\* "Chua Huong"
T_ChuaHuong == <<"C","h","u^","a"," ","H","u^","o^","n","g">>
\* "12 Ly, Hue"
T_Address == <<"1","2"," ","L","y^",","," ","H","u","e^">>
\* "Cho Vung Tau"
T_ChoVungTau == <<"C","h","o^"," ","V","u^","n","g"," ","T","a^","u">>
\* "Ba, Hue": the part before the comma has two characters
T_BaHue == <<"B","a",","," ","H","u","e^">>
\* "Chua A-B - C, Hue": a name with five variants
T_ChuaAB == <<"C","h","u^","a"," ","A","-","B"," ","-"," ","C",","," ","H","u","e^">>
\* "Hue"
T_Hue == <<"H","u","e^">>
\* "Tay Ninh"
T_TayNinh == <<"T","a^","y"," ","N","i","n","h">>
\* "Vung Tau"
T_VungTau == <<"V","u^","n","g"," ","T","a^","u">>
\* "Ba Ria"
T_BaRia == <<"B","a^"," ","R","i^","a">>
\* "Ha Noi"
T_HaNoi == <<"H","a^"," ","N","o^","i">>
\* "**Ho Guom** **Guom**"
A_Lake == <<"*","*","H","o^"," ","G","u^","o^","m","*","*"," ","*","*","G","u^","o^","m","*","*">>
\* "ok": an answer that names no place
A_Plain == <<"o","k">>
\* "**Guom** **Cho Vung Tau**"
A_Market == <<"*","*","G","u^","o^","m","*","*"," ","*","*","C","h","o^"," ","V","u^","n","g"," ","T","a^","u","*","*">>
\* "**Chua Huong** **12 Ly, Hue**"
A_Pagoda == <<"*","*","C","h","u^","a"," ","H","u^","o^","n","g","*","*"," ","*","*","1","2"," ","L","y^",","," ","H","u","e^","*","*">>

\* ------------------------------------------------------------------------
\* The gazetteer file and the provider behaviours of the model
\* ------------------------------------------------------------------------
Row_HoGuom ==
  ("TenDiaDanh" :> T_HoGuom) @@ ("DiaChi" :> T_HaNoi) @@ ("NoiDung" :> <<>>)
  @@ ("ImageURL" :> <<"N", "/", "A">>)
  @@ ("lat" :> <<"2","1",",","0","3">>) @@ ("lng" :> <<"1","0","5",".","8","5">>)

\* a row whose latitude does not parse
Row_ChuaHuong ==
  ("TenDiaDanh" :> T_ChuaHuong) @@ ("DiaChi" :> <<>>) @@ ("NoiDung" :> <<>>)
  @@ ("ImageURL" :> <<>>)
  @@ ("lat" :> <<"N", "/", "A">>) @@ ("lng" :> <<"1","0","5",".","7">>)

GazetteerFile == <<Row_HoGuom, Row_ChuaHuong>>
Missing == <<"missing">>
NotLoaded == <<"not loaded">>

Item_Hue ==
  [lat |-> <<"1","6",".","4","6">>, lon |-> <<"1","0","7",".","5","9">>,
   display_name |-> T_Hue, address |-> <<T_Hue, DEFAULT_OSM_CONTEXT>>]
Item_TayNinh ==
  [lat |-> <<"1","1",".","3">>, lon |-> <<"1","0","6",".","1">>,
   display_name |-> T_TayNinh, address |-> <<T_TayNinh>>]
\* names one of the two parts of "Ba Ria - Vung Tau" only
Item_VungTauOnly ==
  [lat |-> <<"1","0",".","3">>, lon |-> <<"1","0","7",".","1">>,
   display_name |-> T_VungTau, address |-> <<>>]
\* names both parts, one of them in an address field
Item_VungTau ==
  [lat |-> <<"1","0",".","4">>, lon |-> <<"1","0","7",".","1">>,
   display_name |-> T_VungTau, address |-> <<T_BaRia>>]
\* an item without "lat"
Item_NoLat ==
  [lat |-> None, lon |-> <<"1","0","7",".","5","9">>,
   display_name |-> T_Hue, address |-> <<T_Hue>>]

\* What requests.get on the Nominatim URL can do: fail (connection error,
\* timeout), answer with a status, answer 200 with a body that is no JSON,
\* with a JSON object, or with a JSON list of items.
NominatimResponses ==
  { [kind |-> "neterr"],
    [kind |-> "status", code |-> 403],
    [kind |-> "status", code |-> 500],
    [kind |-> "badjson"],
    [kind |-> "json", shape |-> "object", items |-> <<>>],
    [kind |-> "json", shape |-> "list", items |-> <<>>],
    [kind |-> "json", shape |-> "list", items |-> <<Item_TayNinh, Item_Hue>>],
    [kind |-> "json", shape |-> "list", items |-> <<Item_VungTauOnly, Item_VungTau>>],
    [kind |-> "json", shape |-> "list", items |-> <<Item_NoLat>>] }

Feature_Hue ==
  [label |-> T_Hue, name |-> T_Hue, address |-> None, region |-> T_Hue,
   coordinates |-> << <<"1","0","7",".","5","9">>, <<"1","6",".","4","6">> >>]
Feature_TayNinh ==
  [label |-> None, name |-> T_TayNinh, address |-> None, region |-> T_TayNinh,
   coordinates |-> << <<"1","0","6",".","1">>, <<"1","1",".","3">> >>]
\* a feature whose geometry has a single coordinate
Feature_Short ==
  [label |-> T_Hue, name |-> None, address |-> None, region |-> None,
   coordinates |-> << <<"1","0","7">> >>]

\* a feature whose coordinates are two JSON nulls: str(None) each
Feature_Null ==
  [label |-> T_Hue, name |-> T_Hue, address |-> None, region |-> T_Hue,
   coordinates |-> << <<"N","o","n","e">>, <<"N","o","n","e">> >>]

\* What requests.get on the OpenMap URL can do: raise (connection error,
\* HTTP error status, a body that is no JSON), or answer a feature collection.
OpenmapResponses ==
  { [kind |-> "error"],
    [kind |-> "ok", features |-> <<Feature_Short>>],
    [kind |-> "ok", features |-> <<Feature_Null>>],
    [kind |-> "ok", features |-> <<Feature_TayNinh>>],
    [kind |-> "ok", features |-> <<Feature_TayNinh, Feature_Hue>>] }

\* query_openmap_vn after the HTTP answer: the features with at least two
\* coordinates, in Nominatim's item structure; [] on any exception
FirstTruthy(vals, default) ==
  LET ok == {i \in DOMAIN vals : Truthy(vals[i])}
  IN IF ok = {} THEN default ELSE vals[CHOOSE i \in ok : \A k \in ok : i <= k]

openmap_item(feat, query) ==
  [lat |-> feat.coordinates[2], lon |-> feat.coordinates[1],
   display_name |-> FirstTruthy(<<feat.label, feat.name, feat.address>>, query),
   address |-> <<feat.name, feat.region, DEFAULT_OSM_CONTEXT>>]

openmap_results(resp, query) ==
  IF resp.kind = "error" THEN <<>>
  ELSE LET usable == SelectSeq(resp.features, LAMBDA f : Len(f.coordinates) >= 2)
       IN [i \in DOMAIN usable |-> openmap_item(usable[i], query)]

\* the value query_nominatim returns for an HTTP answer: [] after a 403 or
\* an exception (raise_for_status, resp.json()), else the parsed body
EmptyData == [shape |-> "list", items |-> <<>>]

nominatim_results(resp) ==
  IF resp.kind = "json" THEN [shape |-> resp.shape, items |-> resp.items]
  ELSE EmptyData

\* the flag following the last answer: cleared by an answer that is no 403
disabled_after_last(disabled, resp) == resp.kind = "status" /\ resp.code = 403

\* the flag after an HTTP answer: set on a 403, else left as it is
disabled_after(disabled, resp) ==
  IF resp.kind = "status" /\ resp.code = 403 THEN TRUE ELSE disabled

\* query_nominatim without its check of the flag
nominatim_skipped_never(disabled) == FALSE

\* query_nominatim's first statement: a disabled provider is not asked
nominatim_skipped(disabled) == disabled

\* search_osm_location's first statement: return None when disabled
search_refused(disabled) == disabled

\* "if not data": an empty list or an empty JSON object.  The JSON object of
\* the model stands for a non-empty one such as {"error": "..."}.
data_falsy(data) == data.shape = "list" /\ data.items = <<>>

\* ------------------------------------------------------------------------
\* State
\* ------------------------------------------------------------------------
VARIABLES
  OSM_DISABLED,     \* the module global: Nominatim is disabled
  OPENMAP_API_KEY,  \* TRUE when the environment sets the OpenMap key
  csv_file,         \* the dataset on disk: its rows, or Missing
  csv_cache,        \* the memo of load_locations: NotLoaded or the rows
  osm_cache,        \* the memo of search_osm_location
  heap,             \* the record dicts the memo holds, shared with callers
  trips,            \* number of times the 403 branch has run (log and write)
  fr,               \* per worker thread: the request it serves, its locals
  tripped,          \* history: some query_nominatim call has received a 403
  workers,          \* number of worker threads serving requests
  started,          \* number of requests started so far
  match,            \* a find_best_match call on its own: arguments, result
  call              \* another function called on its own: arguments, locals, result

vars == <<OSM_DISABLED, OPENMAP_API_KEY, csv_file, csv_cache, osm_cache, heap,
          trips, fr, tripped, workers, started, match, call>>

\* Bound of the model: the number of requests served
MaxRequests == 2

\* The worker threads: one, or two whose requests overlap
Threads == {1, 2}

\* The inputs of the model.  One worker serves both routes with every text;
\* with more workers the requests that overlap are travel-log requests for
\* one name and chat requests for one answer whose candidates are memoised.
TravelNames(w) ==
  IF w = 1 THEN {T_Guom, T_ChuaHuong, T_Address, T_ChoVungTau, T_BaHue, T_ChuaAB}
  ELSE {T_ChuaHuong}
ChatAnswers(w) == IF w = 1 THEN {A_Plain, A_Lake, A_Market, A_Pagoda} ELSE {A_Pagoda}

\* the search_osm_location calls the candidates of an answer lead to
AnswerKeys(answer) ==
  {CacheKey(c, extract_region_hint_province(answer)) :
     c \in Range(extract_candidate_names(answer))}
PagodaKeys == AnswerKeys(A_Pagoda)
Memoised(answer) ==
  answer = A_Pagoda /\ \A k \in PagodaKeys : CacheIndex(osm_cache, k) # 0

\* the locals of one resolve_location_by_name call, before it runs
ResolveLocals ==
  [ region_hint |-> None, queries |-> <<>>, qi |-> 0, data |-> EmptyData,
    source_label |-> "", chosen |-> NoneDict, via |-> "", ret |-> NoneDict,
    query_text |-> <<>>, ref |-> 0, n_openmap |-> 0, n_nominatim |-> 0, csv_used |-> FALSE,
    nom_called |-> FALSE, nom_tripped |-> FALSE, nom_issued |-> FALSE ]

IdleFrame ==
  [ pc |-> "idle", op |-> "", answer |-> None, names |-> <<>>, idx |-> 0,
    matched |-> <<>>, seen_names |-> {}, name |-> None, context |-> None,
    dups |-> 0, misses |-> 0, has_landmark |-> FALSE, result |-> <<>>, result_idx |-> <<>>, result_ref |-> <<>>,
    exc |-> "" ] @@ ResolveLocals

\* f with the fields of g replaced
With(f, g) == g @@ f

MatchIdle == [phase |-> "off"]
CallIdle == [pc |-> "off"]

Init ==
  /\ OSM_DISABLED = FALSE
  /\ OPENMAP_API_KEY \in BOOLEAN
  /\ csv_file \in {GazetteerFile, Missing}
  /\ csv_cache = NotLoaded
  /\ osm_cache = <<>>
  /\ heap = <<>>
  /\ trips = 0
  /\ fr = [t \in Threads |-> IdleFrame]
  /\ tripped = FALSE
  /\ workers \in Threads
  /\ started = 0
  /\ match = MatchIdle
  /\ call = CallIdle

\* load_locations(): the rows, memoised; raises when the file is missing
\* a request is taken by the free worker with the lowest number
Takes(t) ==
  /\ t <= workers
  /\ fr[t].pc = "idle"
  /\ \A u \in 1..(t - 1) : fr[u].pc # "idle"

LoadRaises == csv_cache = NotLoaded /\ csv_file = Missing
LoadedRows == IF csv_cache # NotLoaded THEN csv_cache ELSE csv_file

Raise(f, e) == With(f, [pc |-> "raised", exc |-> e])

\* ------------------------------------------------------------------------
\* Requests
\* ------------------------------------------------------------------------
\* POST /chat: extract_locations_from_answer(answer) up to the loop
CallExtract(t, answer) ==
  /\ Takes(t)
  /\ workers = 1 \/ Memoised(answer)
  /\ started < MaxRequests
  /\ started' = started + 1
  /\ IF LoadRaises
       THEN /\ fr' = [fr EXCEPT ![t] =
                       Raise(With(IdleFrame, [op |-> "extract", answer |-> answer]),
                             "FileNotFoundError")]
            /\ UNCHANGED csv_cache
       ELSE /\ csv_cache' = LoadedRows
            /\ fr' = [fr EXCEPT ![t] =
                       With(IdleFrame, [pc |-> "loop", op |-> "extract", answer |-> answer,
                                        names |-> extract_candidate_names(answer),
                                        idx |-> 1])]
  /\ UNCHANGED <<OSM_DISABLED, OPENMAP_API_KEY, csv_file, osm_cache, tripped, workers, match, call,
                 heap, trips>>

\* "for name in names": the next candidate goes to resolve_location_by_name
\* with the answer as context; after the last one the post-filter runs
ExtractLoop(t) ==
  /\ fr[t].pc = "loop"
  /\ LET f == fr[t]
     IN fr' = [fr EXCEPT ![t] =
          IF f.idx <= Len(f.names)
            THEN With(With(f, ResolveLocals),
                      [pc |-> "resolve", name |-> f.names[f.idx], context |-> f.answer])
            ELSE With(f, [pc |-> "post"])]
  /\ UNCHANGED <<OSM_DISABLED, OPENMAP_API_KEY, csv_file, csv_cache, osm_cache,
                 tripped, workers, started, match, call,
                 heap, trips>>

\* POST /travel-log/visited: resolve_location_by_name(raw_name), no context
CallResolve(t, name) ==
  /\ Takes(t)
  /\ started < MaxRequests
  /\ started' = started + 1
  /\ fr' = [fr EXCEPT ![t] =
              With(IdleFrame, [pc |-> "resolve", op |-> "resolve", name |-> name])]
  /\ UNCHANGED <<OSM_DISABLED, OPENMAP_API_KEY, csv_file, csv_cache, osm_cache,
                 tripped, workers, match, call,
                 heap, trips>>

\* ------------------------------------------------------------------------
\* resolve_location_by_name, up to its return or its search_osm_location call
\* ------------------------------------------------------------------------
min_score_resolve == <<1, 2>>

\* the hint of the address branch: extract_region_hint_province(context or name)
address_hint(name, context) ==
  extract_region_hint_province(IF Truthy(context) THEN context ELSE name)

\* fallback_hint from the context alone
fallback_hint_context(name, context) == extract_region_hint_province(context)

\* the hint of the fallback after the gazetteer: from the context when there
\* is one, else from the name
fallback_hint(name, context) ==
  IF Truthy(context) THEN extract_region_hint_province(context)
  ELSE extract_region_hint_province(name)

\* "if csv_row:" and "if lat is not None and lng is not None:"
\* a gazetteer record built from any matched row, with the coordinates it has
csv_usable_any(csv_row) == csv_row # NoneDict

csv_usable(csv_row) ==
  /\ csv_row # NoneDict
  /\ get_lat_lng(csv_row)[1] # None
  /\ get_lat_lng(csv_row)[2] # None

Resolve(t) ==
  /\ fr[t].pc = "resolve"
  /\ LET f == fr[t]
     IN IF ~Truthy(f.name)
          THEN /\ fr' = [fr EXCEPT ![t] = With(f, [pc |-> "resolved", ret |-> NoneDict])]
               /\ UNCHANGED csv_cache
        ELSE IF looks_like_address(f.name)
          THEN /\ fr' = [fr EXCEPT ![t] =
                          With(f, [pc |-> "search",
                                   region_hint |-> address_hint(f.name, f.context)])]
               /\ UNCHANGED csv_cache
        ELSE IF LoadRaises
          THEN /\ fr' = [fr EXCEPT ![t] = Raise(f, "FileNotFoundError")]
               /\ UNCHANGED csv_cache
        ELSE /\ csv_cache' = LoadedRows
             /\ LET csv_row == find_best_match(f.name, LoadedRows, min_score_resolve)
                IN fr' = [fr EXCEPT ![t] =
                     IF csv_usable(csv_row)
                       THEN With(f, [pc |-> "resolved", csv_used |-> TRUE, via |-> "csv",
                                     ret |-> csv_record(csv_row)])
                       ELSE With(f, [pc |-> "search", csv_used |-> TRUE,
                                     region_hint |-> fallback_hint(f.name, f.context)])]
  /\ UNCHANGED <<OSM_DISABLED, OPENMAP_API_KEY, csv_file, osm_cache, tripped,
                 workers, started, match, call,
                 heap, trips>>

\* ------------------------------------------------------------------------
\* search_osm_location
\* ------------------------------------------------------------------------
\* A record search_osm_location returns is one dict object: the memo keeps
\* it and every later hit hands the same object out.  heap holds these
\* objects, the memo and the callers hold their index.  _original_candidate
\* is the key extract_locations_from_answer adds to the dict (None: absent).
\* born and args are history: the dict as it was returned first, and the
\* arguments (name, region_hint) of the call that made it.
HeapObject(rec, args) ==
  [dict |-> rec, born |-> rec, args |-> args, _original_candidate |-> None]

\* the value a memo entry stands for
CachedValue(h, value) == IF value = NoneDict THEN NoneDict ELSE h[value.ref].dict
CachedRef(value) == IF value = NoneDict THEN 0 ELSE value.ref

\* the call: a memo hit returns the stored value; else the function body
\* starts, which returns None at once when Nominatim is disabled
SearchEnter(t) ==
  /\ fr[t].pc = "search"
  /\ LET f == fr[t]
         key == CacheKey(f.name, f.region_hint)
         i == CacheIndex(osm_cache, key)
     IN IF i # 0
          THEN /\ osm_cache' = CacheTouch(osm_cache, i)
               /\ fr' = [fr EXCEPT ![t] =
                          With(f, [pc |-> "resolved", via |-> "cache",
                                   ret |-> CachedValue(heap, osm_cache[i].value),
                                   ref |-> CachedRef(osm_cache[i].value)])]
        ELSE IF search_refused(OSM_DISABLED)
          THEN /\ osm_cache' = CacheInsert(osm_cache, key, NoneDict)
               /\ fr' = [fr EXCEPT ![t] =
                          With(f, [pc |-> "resolved", via |-> "disabled", ret |-> NoneDict])]
        ELSE /\ UNCHANGED osm_cache
             /\ fr' = [fr EXCEPT ![t] =
                        With(f, [pc |-> "variant", queries |-> query_variants(f.name),
                                 qi |-> 1])]
  /\ UNCHANGED <<OSM_DISABLED, OPENMAP_API_KEY, csv_file, csv_cache, heap, trips,
                 tripped, workers, started, match, call>>

\* "continue" that tries the same variant again
NextVariant_retry(f) ==
  With(f, [pc |-> "variant", data |-> EmptyData, source_label |-> "",
           nom_called |-> FALSE, nom_tripped |-> FALSE, nom_issued |-> FALSE])

\* "continue": on to the next variant
NextVariant(f) ==
  With(f, [pc |-> "variant", qi |-> f.qi + 1, data |-> EmptyData, source_label |-> "",
           nom_called |-> FALSE, nom_tripped |-> FALSE, nom_issued |-> FALSE])

\* an answer with items and none of them accepted tried on the fallback
\* provider before the variant is given up
no_item_chosen_try_fallback(f) ==
  IF f.source_label = "openmap_vn" THEN With(f, [pc |-> "nominatim"]) ELSE NextVariant(f)

\* "if not chosen_item: continue"
no_item_chosen(f) == NextVariant(f)

\* "for q in queries": the head of the loop, up to the first provider call.
\* After the last variant the function returns None, which is memoised.
Variant(t) ==
  /\ fr[t].pc = "variant"
  /\ LET f == fr[t]
         query_text == query_text_of(f.queries[f.qi], DEFAULT_OSM_CONTEXT, f.region_hint)
     IN IF f.qi > Len(f.queries)
          THEN /\ osm_cache' = CacheInsert(osm_cache, CacheKey(f.name, f.region_hint), NoneDict)
               /\ fr' = [fr EXCEPT ![t] =
                          With(f, [pc |-> "resolved", via |-> "providers", ret |-> NoneDict])]
        ELSE /\ UNCHANGED osm_cache
             /\ fr' = [fr EXCEPT ![t] =
                  IF Len(f.queries[f.qi]) < 3 THEN NextVariant(f)
                  ELSE IF OPENMAP_API_KEY
                    THEN With(f, [pc |-> "openmap_wait", n_openmap |-> f.n_openmap + 1,
                                  query_text |-> query_text])
                    ELSE With(f, [pc |-> "nominatim", query_text |-> query_text])]
  /\ UNCHANGED <<OSM_DISABLED, OPENMAP_API_KEY, csv_file, csv_cache, tripped,
                 workers, started, match, call,
                 heap, trips>>

\* query_openmap_vn: the HTTP answer arrives
OpenmapResponse(t, resp) ==
  /\ fr[t].pc = "openmap_wait"
  /\ LET f == fr[t]
         items == openmap_results(resp, f.query_text)
     IN fr' = [fr EXCEPT ![t] =
          IF items # <<>>
            THEN With(f, [pc |-> "filter", source_label |-> "openmap_vn",
                          data |-> [shape |-> "list", items |-> items]])
            ELSE With(f, [pc |-> "nominatim", source_label |-> "openmap_vn"])]
  /\ UNCHANGED <<OSM_DISABLED, OPENMAP_API_KEY, csv_file, csv_cache, osm_cache,
                 tripped, workers, started, match, call,
                 heap, trips>>

\* query_nominatim, up to requests.get: [] at once when disabled
NominatimStart(t) ==
  /\ fr[t].pc = "nominatim"
  /\ LET f == fr[t]
     IN fr' = [fr EXCEPT ![t] =
          IF nominatim_skipped(OSM_DISABLED)
            THEN With(f, [pc |-> "filter", source_label |-> "osm_fallback",
                          data |-> EmptyData, nom_called |-> TRUE,
                          nom_tripped |-> tripped, nom_issued |-> FALSE])
            ELSE With(f, [pc |-> "nominatim_wait", n_nominatim |-> f.n_nominatim + 1,
                          nom_called |-> TRUE, nom_tripped |-> tripped,
                          nom_issued |-> TRUE])]
  /\ UNCHANGED <<OSM_DISABLED, OPENMAP_API_KEY, csv_file, csv_cache, osm_cache,
                 tripped, workers, started, match, call,
                 heap, trips>>

\* the 403 branch: the error is logged and the flag written
is_trip(resp) == resp.kind = "status" /\ resp.code = 403

\* query_nominatim: the HTTP answer arrives
NominatimResponse(t, resp) ==
  /\ fr[t].pc = "nominatim_wait"
  /\ OSM_DISABLED' = disabled_after(OSM_DISABLED, resp)
  /\ tripped' = (tripped \/ is_trip(resp))
  /\ trips' = IF is_trip(resp) THEN trips + 1 ELSE trips
  /\ fr' = [fr EXCEPT ![t] =
              With(fr[t], [pc |-> "filter", source_label |-> "osm_fallback",
                           data |-> nominatim_results(resp)])]
  /\ UNCHANGED <<OPENMAP_API_KEY, csv_file, csv_cache, osm_cache, heap, workers,
                 started, match, call>>

\* from "if not data: continue" to the return of the record: the first
\* accepted item becomes the result, none sends the loop on.  The memo
\* stores the result unless the key was stored meanwhile by another call.
\* Iterating a JSON object yields its keys, and "error".get raises.
Filter(t) ==
  /\ fr[t].pc = "filter"
  /\ LET f == fr[t]
         chosen_item == choose_item(f.data.items, region_parts(f.region_hint))
         rec == osm_record(chosen_item, f.queries[f.qi], f.name, f.source_label)
         key == CacheKey(f.name, f.region_hint)
         stored == CacheIndex(osm_cache, key) = 0
     IN IF data_falsy(f.data)
          THEN fr' = [fr EXCEPT ![t] = NextVariant(f)] /\ UNCHANGED <<osm_cache, heap>>
        ELSE IF f.data.shape # "list"
          THEN /\ fr' = [fr EXCEPT ![t] = Raise(f, "AttributeError")]
               /\ UNCHANGED <<osm_cache, heap>>
        ELSE IF chosen_item = NoneDict
          THEN fr' = [fr EXCEPT ![t] = no_item_chosen(f)] /\ UNCHANGED <<osm_cache, heap>>
        ELSE /\ heap' = IF stored THEN Append(heap, HeapObject(rec, <<f.name, f.region_hint>>)) ELSE heap
             /\ osm_cache' = CacheInsert(osm_cache, key, [ref |-> Len(heap) + 1])
             /\ fr' = [fr EXCEPT ![t] =
                        With(f, [pc |-> "resolved", via |-> "providers",
                                 chosen |-> chosen_item, ret |-> rec,
                                 ref |-> IF stored THEN Len(heap) + 1 ELSE 0])]
  /\ UNCHANGED <<OSM_DISABLED, OPENMAP_API_KEY, csv_file, csv_cache, trips, tripped,
                 workers, started, match, call>>

\* ------------------------------------------------------------------------
\* Back in the caller
\* ------------------------------------------------------------------------
\* location_data["_original_candidate"] = name, on the dict itself
SetCandidate(h, ref, name) ==
  IF ref = 0 THEN h ELSE [h EXCEPT ![ref]._original_candidate = name]

\* the loop stopped by a candidate without result
skip_candidate_stop(f) == With(f, [pc |-> "post", misses |-> f.misses + 1])

\* "if location_data:" is false: on to the next candidate
skip_candidate(f) == With(f, [pc |-> "loop", idx |-> f.idx + 1, misses |-> f.misses + 1])

\* the travel-log route goes on to the image; the extraction loop
\* deduplicates by the resolved name, marks and appends the record and goes
\* to the next candidate
Resolved(t) ==
  /\ fr[t].pc = "resolved"
  /\ LET f == fr[t]
         key == resolved_name(f.ret, f.name)
         new == f.op = "extract" /\ f.ret # NoneDict /\ key \notin f.seen_names
     IN /\ heap' = IF new THEN SetCandidate(heap, f.ref, f.name) ELSE heap
        /\ fr' = [fr EXCEPT ![t] =
             IF f.op = "resolve"
               THEN IF f.ret = NoneDict
                      THEN With(f, [pc |-> "done", result |-> <<f.ret>>])
                      ELSE With(f, [pc |-> "enrich"])
             ELSE IF new
               THEN With(f, [pc |-> "loop", idx |-> f.idx + 1,
                             seen_names |-> f.seen_names \cup {key},
                             matched |-> Append(f.matched,
                                           [loc |-> f.ret, cand |-> f.name,
                                            ref |-> f.ref, idx |-> f.idx])])
             ELSE IF f.ret # NoneDict
               THEN With(f, [pc |-> "loop", idx |-> f.idx + 1, dups |-> f.dups + 1])
               ELSE skip_candidate(f)]
  /\ UNCHANGED <<OSM_DISABLED, OPENMAP_API_KEY, csv_file, csv_cache, osm_cache,
                 trips, tripped, workers, started, match, call>>

\* what fetch_image_from_google can return: a link, or None
ImageLink == <<"i","m","g">>
ImageAnswers == {None, ImageLink}

\* the dict a caller holds: the shared object, or its own
Current(h, rec, ref) == IF ref = 0 THEN rec ELSE h[ref].dict

\* enrich_location_with_image: a dict without an image gets the link, in place
image_wanted(location) == ~Truthy(location.imageUrl) /\ Strip(location.name) # <<>>

Enrich(t, img) ==
  /\ fr[t].pc = "enrich"
  /\ LET f == fr[t]
         location == Current(heap, f.ret, f.ref)
         enriched == IF image_wanted(location) /\ img # None
                       THEN [location EXCEPT !.imageUrl = img] ELSE location
     IN /\ heap' = IF f.ref = 0 THEN heap ELSE [heap EXCEPT ![f.ref].dict = enriched]
        /\ fr' = [fr EXCEPT ![t] =
                    With(f, [pc |-> "done", ret |-> enriched, result |-> <<enriched>>,
                             result_ref |-> <<f.ref>>])]
  /\ UNCHANGED <<OSM_DISABLED, OPENMAP_API_KEY, csv_file, csv_cache, osm_cache,
                 trips, tripped, workers, started, match, call>>

\* loc.get("_original_candidate", ""): read from the dict as it is now
tracked(h, m) ==
  IF m.ref = 0 THEN m.cand
  ELSE IF h[m.ref]._original_candidate = None THEN <<>>
  ELSE h[m.ref]._original_candidate

\* the matched list as the post-filter reads it
matched_view(h, matched) ==
  [i \in DOMAIN matched |->
     [loc |-> Current(h, matched[i].loc, matched[i].ref), cand |-> tracked(h, matched[i]),
      ref |-> matched[i].ref, idx |-> matched[i].idx]]

\* loc.pop("_original_candidate", None) for the records returned
PopCandidates(h, kept) ==
  [i \in DOMAIN h |->
     IF \E k \in DOMAIN kept : kept[k].ref = i
       THEN [h[i] EXCEPT !._original_candidate = None] ELSE h[i]]

\* the head of the post-filter: is there a landmark among the candidates
PostCheck(t) ==
  /\ fr[t].pc = "post"
  /\ fr' = [fr EXCEPT ![t] =
              With(fr[t], [pc |-> "post_filter",
                           has_landmark |->
                             has_landmark_keyword(matched_view(heap, fr[t].matched))])]
  /\ UNCHANGED <<OSM_DISABLED, OPENMAP_API_KEY, csv_file, csv_cache, osm_cache,
                 heap, trips, tripped, workers, started, match, call>>

\* the filter loop, the removal of the tracking key and the return of the list
PostFilter(t) ==
  /\ fr[t].pc = "post_filter"
  /\ LET view == matched_view(heap, fr[t].matched)
         kept == IF fr[t].has_landmark THEN smart_filter(view) ELSE view
     IN /\ heap' = PopCandidates(heap, kept)
        /\ fr' = [fr EXCEPT ![t] =
                    With(fr[t], [pc |-> "done",
                                 result |-> [i \in DOMAIN kept |-> kept[i].loc],
                                 result_idx |-> [i \in DOMAIN kept |-> kept[i].idx],
                                 result_ref |-> [i \in DOMAIN kept |-> kept[i].ref]])]
  /\ UNCHANGED <<OSM_DISABLED, OPENMAP_API_KEY, csv_file, csv_cache, osm_cache,
                 trips, tripped, workers, started, match, call>>

\* the request is answered (or failed with the exception); the worker is free
Finish(t) ==
  /\ fr[t].pc \in {"done", "raised"}
  /\ fr' = [fr EXCEPT ![t] = IdleFrame]
  /\ UNCHANGED <<OSM_DISABLED, OPENMAP_API_KEY, csv_file, csv_cache, osm_cache,
                 heap, trips, tripped, workers, started, match, call>>

Next ==
  \E t \in Threads :
    \/ \E answer \in ChatAnswers(workers) : CallExtract(t, answer)
    \/ \E name \in TravelNames(workers) : CallResolve(t, name)
    \/ ExtractLoop(t)
    \/ Resolve(t)
    \/ SearchEnter(t)
    \/ Variant(t)
    \/ \E resp \in OpenmapResponses : OpenmapResponse(t, resp)
    \/ NominatimStart(t)
    \/ \E resp \in NominatimResponses : NominatimResponse(t, resp)
    \/ Filter(t)
    \/ Resolved(t)
    \/ \E img \in ImageAnswers : Enrich(t, img)
    \/ PostCheck(t)
    \/ PostFilter(t)
    \/ Finish(t)

Spec == Init /\ [][Next]_vars

\* Scheduling and the network: a called request that can take a step takes
\* one in the end, and every HTTP call is answered (each requests.get carries
\* timeout=8, a timeout being one of the answers).  A request can take a
\* step at every position but "idle", and each of its steps changes its
\* frame, so this is weak fairness of the steps of thread t, written without
\* ENABLED.
Moves(t) == fr'[t] # fr[t]

Fair(t) == []<>(fr[t].pc = "idle") \/ []<><<Moves(t)>>_vars

SpecLive == Init /\ [][Next]_vars /\ \A t \in Threads : Fair(t)

\* ------------------------------------------------------------------------
\* A process that has served the answer A_Pagoda before: both candidates
\* were resolved by Nominatim under the hint "Hue", the record of the
\* address was dropped by the post-filter and kept its tracking key
\* ------------------------------------------------------------------------
WarmRecord(name) == osm_record(Item_Hue, name, name, "osm_fallback")
WarmHeap ==
  << HeapObject(WarmRecord(T_ChuaHuong), <<T_ChuaHuong, T_Hue>>),
     [HeapObject(WarmRecord(T_Address), <<T_Address, T_Hue>>)
        EXCEPT !._original_candidate = T_Address] >>
WarmCache ==
  << [key |-> CacheKey(T_ChuaHuong, T_Hue), value |-> [ref |-> 1]],
     [key |-> CacheKey(T_Address, T_Hue), value |-> [ref |-> 2]] >>

InitWarm ==
  /\ OSM_DISABLED = FALSE
  /\ OPENMAP_API_KEY \in BOOLEAN
  /\ csv_file = GazetteerFile
  /\ csv_cache = GazetteerFile
  /\ osm_cache = WarmCache
  /\ heap = WarmHeap
  /\ trips = 0
  /\ fr = [t \in Threads |-> IdleFrame]
  /\ tripped = FALSE
  /\ workers = 2
  /\ started = 0
  /\ match = MatchIdle
  /\ call = CallIdle

SpecWarm == InitWarm /\ [][Next]_vars

\* ------------------------------------------------------------------------
\* A process whose memo is full: 256 searches for other names, all without
\* result, were made before
\* ------------------------------------------------------------------------
DigitChars == <<"0","1","2","3","4","5","6","7","8","9">>
FillerName(i) ==
  <<"#", DigitChars[(i \div 100) + 1], DigitChars[((i \div 10) % 10) + 1],
    DigitChars[(i % 10) + 1]>>
FullCache ==
  [i \in 1..CacheMaxSize |-> [key |-> CacheKey(FillerName(i), None), value |-> NoneDict]]

InitFull ==
  /\ OSM_DISABLED = FALSE
  /\ OPENMAP_API_KEY \in BOOLEAN
  /\ csv_file = GazetteerFile
  /\ csv_cache = GazetteerFile
  /\ osm_cache = FullCache
  /\ heap = <<>>
  /\ trips = 0
  /\ fr = [t \in Threads |-> IdleFrame]
  /\ tripped = FALSE
  /\ workers = 1
  /\ started = 0
  /\ match = MatchIdle
  /\ call = CallIdle

SpecFull == InitFull /\ [][Next]_vars

\* the state InitWarm starts from is one the program reaches from Init
WarmReached ==
  /\ osm_cache = WarmCache /\ heap = WarmHeap /\ csv_cache = GazetteerFile
  /\ ~OSM_DISABLED /\ \A t \in Threads : fr[t].pc = "idle"

\* ------------------------------------------------------------------------
\* find_best_match on its own
\* ------------------------------------------------------------------------
\* Bound of the model: the longest gazetteer handed to the matcher
MaxMatchRows == 2

MatchNames ==
  { <<>>, <<"!","!">>, <<"a">>, <<"a"," ","b">>, <<"k","h","u">>,
    <<"K","h","u"," ","a"," ","b"," ","c"," ","d"," ","e">> }

MatchRowPool ==
  { ("TenDiaDanh" :> <<"a"," ","b"," ","c">>),
    ("TenDiaDanh" :> <<"d","i"," ","a"," ","b"," ","c"," ","d"," ","f">>),
    ("TenDiaDanh" :> <<"a"," ","z">>),
    ("TenDiaDanh" :> <<"a">>),
    ("TenDiaDanh" :> <<"k","h","u"," ","z">>),
    ("TenDiaDanh" :> <<>>) @@ ("DiaDanh" :> <<"A"," ","B">>),
    ("TenDiaDanh" :> <<>>) @@ ("DiaChi" :> <<"a">>) }

\* the default of the min_score parameter and the value resolve passes
MatchScores == { <<3, 4>>, min_score_resolve }

RECURSIVE SeqsUpTo(_, _)
SeqsUpTo(S, n) ==
  IF n = 0 THEN {<<>>}
  ELSE LET shorter == SeqsUpTo(S, n - 1)
       IN shorter \cup {Append(q, x) : q \in {r \in shorter : Len(r) = n - 1}, x \in S}

InitMatch ==
  /\ OSM_DISABLED = FALSE
  /\ OPENMAP_API_KEY = FALSE
  /\ csv_file = GazetteerFile
  /\ csv_cache = NotLoaded
  /\ osm_cache = <<>>
  /\ heap = <<>>
  /\ trips = 0
  /\ fr = [t \in Threads |-> IdleFrame]
  /\ tripped = FALSE
  /\ workers = 1
  /\ started = 0
  /\ match \in [phase : {"call"}, name : MatchNames,
                rows : SeqsUpTo(MatchRowPool, MaxMatchRows),
                min_score : MatchScores, result : {NoneDict}]
  /\ call = CallIdle

FindBestMatch ==
  /\ match.phase = "call"
  /\ match' = [match EXCEPT !.phase = "returned",
                            !.result = find_best_match(match.name, match.rows, match.min_score)]
  /\ UNCHANGED <<OSM_DISABLED, OPENMAP_API_KEY, csv_file, csv_cache, osm_cache, fr,
                 tripped, workers, started,
                 heap, trips, call>>

NextMatch == FindBestMatch

SpecMatch == InitMatch /\ [][NextMatch]_vars

\* ------------------------------------------------------------------------
\* generate_recommendation (rag_engine.py) on its own
\* ------------------------------------------------------------------------
\* Bound of the model: top_k, the most documents similarity_search returns
MaxTopK == 3

\* the documents of the vector store: metadata loc_id and name; two
\* documents share a loc_id
DocPool ==
  { [loc_id |-> "ha_noi", TenDiaDanh |-> "Ha Noi"],
    [loc_id |-> "ha_noi", TenDiaDanh |-> "Ha Noi 2"],
    [loc_id |-> "ho_chi_minh", TenDiaDanh |-> "Ho Chi Minh"],
    [loc_id |-> "hue", TenDiaDanh |-> "Hue"] }

\* the histories a caller passes as user_visited_ids
VisitedLists == SeqsUpTo({"ha_noi", "ho_chi_minh"}, 2)

\* what llm.invoke does: it answers, or it raises
LlmAnswers == {"content", "raise"}

NoPlacesResponse == "no new places"

\* "loc_id in user_visited_ids", compared with the first id only
is_visited_first(loc_id, user_visited_ids) ==
  user_visited_ids # <<>> /\ loc_id = user_visited_ids[1]

\* "loc_id in user_visited_ids"
is_visited(loc_id, user_visited_ids) ==
  \E i \in DOMAIN user_visited_ids : user_visited_ids[i] = loc_id

InitRecommend ==
  /\ OSM_DISABLED = FALSE
  /\ OPENMAP_API_KEY = FALSE
  /\ csv_file = GazetteerFile
  /\ csv_cache = NotLoaded
  /\ osm_cache = <<>>
  /\ heap = <<>>
  /\ trips = 0
  /\ fr = [t \in Threads |-> IdleFrame]
  /\ tripped = FALSE
  /\ workers = 1
  /\ started = 0
  /\ match = MatchIdle
  /\ call \in [pc : {"search"}, user_visited_ids : VisitedLists,
               allow_revisit : BOOLEAN, retrieved_docs : {<<>>}, i : {1},
               new_places : {<<>>}, old_places : {<<>>}, final_places : {<<>>},
               filtered_count : {0}, result : {NoneDict}]

\* STEP 1: vector_store.similarity_search(user_query, k=top_k)
SimilaritySearch(docs) ==
  /\ call.pc = "search"
  /\ call' = [call EXCEPT !.pc = "partition", !.retrieved_docs = docs]
  /\ UNCHANGED <<OSM_DISABLED, OPENMAP_API_KEY, csv_file, csv_cache, osm_cache, heap,
                 trips, fr, tripped, workers, started, match>>

\* STEP 2: "for doc in retrieved_docs", one document
PartitionStep ==
  /\ call.pc = "partition"
  /\ call.i <= Len(call.retrieved_docs)
  /\ LET doc == call.retrieved_docs[call.i]
     IN call' =
          IF is_visited(doc.loc_id, call.user_visited_ids)
            THEN [call EXCEPT !.i = @ + 1, !.old_places = Append(@, doc)]
            ELSE [call EXCEPT !.i = @ + 1, !.new_places = Append(@, doc)]
  /\ UNCHANGED <<OSM_DISABLED, OPENMAP_API_KEY, csv_file, csv_cache, osm_cache, heap,
                 trips, fr, tripped, workers, started, match>>

\* "if allow_revisit: ... else: ...", and the return when no place remains
DecidePlaces ==
  /\ call.pc = "partition"
  /\ call.i > Len(call.retrieved_docs)
  /\ LET final_places == IF call.allow_revisit THEN call.retrieved_docs
                         ELSE call.new_places
         filtered_count == IF call.allow_revisit THEN 0 ELSE Len(call.old_places)
     IN call' =
          IF final_places = <<>>
            THEN [call EXCEPT !.pc = "returned", !.final_places = final_places,
                              !.filtered_count = filtered_count,
                              !.result = [final_response |-> NoPlacesResponse,
                                          new_places |-> <<>>,
                                          old_places |-> call.old_places,
                                          filtered_count |-> filtered_count]]
            ELSE [call EXCEPT !.pc = "llm", !.final_places = final_places,
                              !.filtered_count = filtered_count]
  /\ UNCHANGED <<OSM_DISABLED, OPENMAP_API_KEY, csv_file, csv_cache, osm_cache, heap,
                 trips, fr, tripped, workers, started, match>>

\* STEP 3 and 4: the prompt is built and llm.invoke(prompt) answers or raises
LlmInvoke(answer) ==
  /\ call.pc = "llm"
  /\ call' =
       IF answer = "raise" THEN [call EXCEPT !.pc = "raised"]
       ELSE [call EXCEPT !.pc = "returned",
                         !.result = [final_response |-> answer,
                                     new_places |-> call.new_places,
                                     old_places |-> call.old_places,
                                     filtered_count |-> call.filtered_count]]
  /\ UNCHANGED <<OSM_DISABLED, OPENMAP_API_KEY, csv_file, csv_cache, osm_cache, heap,
                 trips, fr, tripped, workers, started, match>>

NextRecommend ==
  \/ \E docs \in SeqsUpTo(DocPool, MaxTopK) : SimilaritySearch(docs)
  \/ PartitionStep
  \/ DecidePlaces
  \/ \E answer \in LlmAnswers : LlmInvoke(answer)

SpecRecommend == InitRecommend /\ [][NextRecommend]_vars

\* ------------------------------------------------------------------------
\* extract_region_hint_province on its own
\* ------------------------------------------------------------------------
\* Bound of the model: the number of words of a text handed to a function
MaxWords == 3

\* "Da Nang" is a province and a tourism city, "Tay Ninh" a province,
\* "Sai Gon" a synonym, "Vung Tau" a synonym and a tourism city, "Da Lat" a
\* tourism city, "cho" none of them
T_DaNang == <<"D-","a^"," ","N","a^","n","g">>
T_SaiGon == <<"S","a^","i"," ","G","o^","n">>
T_DaLat == <<"D-","a^"," ","L","a^","t">>
T_Cho == <<"c","h","o^">>
HintWords == {T_DaNang, T_TayNinh, T_SaiGon, T_VungTau, T_DaLat, T_Cho}

\* the texts: up to MaxWords words, separated by blanks
HintTexts == {JoinSpace(ws) : ws \in SeqsUpTo(HintWords, MaxWords)}

InitHint ==
  /\ OSM_DISABLED = FALSE
  /\ OPENMAP_API_KEY = FALSE
  /\ csv_file = GazetteerFile
  /\ csv_cache = NotLoaded
  /\ osm_cache = <<>>
  /\ heap = <<>>
  /\ trips = 0
  /\ fr = [t \in Threads |-> IdleFrame]
  /\ tripped = FALSE
  /\ workers = 1
  /\ started = 0
  /\ match = MatchIdle
  /\ call \in [pc : {"call"}, answer : HintTexts, result : {None}]

ExtractRegionHint ==
  /\ call.pc = "call"
  /\ call' = [call EXCEPT !.pc = "returned",
                          !.result = extract_region_hint_province(call.answer)]
  /\ UNCHANGED <<OSM_DISABLED, OPENMAP_API_KEY, csv_file, csv_cache, osm_cache, heap,
                 trips, fr, tripped, workers, started, match>>

NextHint == ExtractRegionHint

SpecHint == InitHint /\ [][NextHint]_vars

\* ------------------------------------------------------------------------
\* looks_like_address on its own
\* ------------------------------------------------------------------------
\* a house number, the old-quarter phrase with and without accents, two
\* keywords, "TP" (a keyword only when a blank or a dot follows) and a word
\* that is none of them
T_12 == <<"1","2">>
T_PhoCoAccents == <<"P","h","o^"," ","c","o^">>
T_PhoCo == <<"p","h","o"," ","c","o">>
T_Quan == <<"Q","u","a^","n">>
T_City == <<"c","i","t","y">>
T_TP == <<"T","P">>
AddressWords == {T_12, T_PhoCoAccents, T_PhoCo, T_Quan, T_City, T_TP, T_Cho}

AddressTexts == {JoinSpace(ws) : ws \in SeqsUpTo(AddressWords, MaxWords)}

InitAddress ==
  /\ OSM_DISABLED = FALSE
  /\ OPENMAP_API_KEY = FALSE
  /\ csv_file = GazetteerFile
  /\ csv_cache = NotLoaded
  /\ osm_cache = <<>>
  /\ heap = <<>>
  /\ trips = 0
  /\ fr = [t \in Threads |-> IdleFrame]
  /\ tripped = FALSE
  /\ workers = 1
  /\ started = 0
  /\ match = MatchIdle
  /\ call \in [pc : {"call"}, query : AddressTexts, result : {FALSE}]

LooksLikeAddress ==
  /\ call.pc = "call"
  /\ call' = [call EXCEPT !.pc = "returned", !.result = looks_like_address(call.query)]
  /\ UNCHANGED <<OSM_DISABLED, OPENMAP_API_KEY, csv_file, csv_cache, osm_cache, heap,
                 trips, fr, tripped, workers, started, match>>

NextAddress == LooksLikeAddress

SpecAddress == InitAddress /\ [][NextAddress]_vars

\* ------------------------------------------------------------------------
\* normalize_text and tokenize on their own
\* ------------------------------------------------------------------------
\* Bound of the model: the length of a text handed to normalize_text
MaxTextLen == 3

\* letters in both cases, with and without accent, a letter that NFD leaves
\* whole, a digit, both kinds of whitespace and a punctuation mark
TextAlphabet == {"a", "B", "o^", "U^", "D-", "1", " ", "\n", ","}

InitNormalize ==
  /\ OSM_DISABLED = FALSE
  /\ OPENMAP_API_KEY = FALSE
  /\ csv_file = GazetteerFile
  /\ csv_cache = NotLoaded
  /\ osm_cache = <<>>
  /\ heap = <<>>
  /\ trips = 0
  /\ fr = [t \in Threads |-> IdleFrame]
  /\ tripped = FALSE
  /\ workers = 1
  /\ started = 0
  /\ match = MatchIdle
  /\ call \in [pc : {"call"}, s : SeqsUpTo(TextAlphabet, MaxTextLen),
               once : {None}, twice : {None}, tokens : {None}]

\* normalize_text(s)
NormalizeText ==
  /\ call.pc = "call"
  /\ call' = [call EXCEPT !.pc = "once", !.once = normalize_text(call.s)]
  /\ UNCHANGED <<OSM_DISABLED, OPENMAP_API_KEY, csv_file, csv_cache, osm_cache, heap,
                 trips, fr, tripped, workers, started, match>>

\* normalize_text applied to its own result
NormalizeAgain ==
  /\ call.pc = "once"
  /\ call' = [call EXCEPT !.pc = "twice", !.twice = normalize_text(call.once)]
  /\ UNCHANGED <<OSM_DISABLED, OPENMAP_API_KEY, csv_file, csv_cache, osm_cache, heap,
                 trips, fr, tripped, workers, started, match>>

\* tokenize(s)
Tokenize ==
  /\ call.pc = "call"
  /\ call' = [call EXCEPT !.pc = "tokenized", !.tokens = tokenize(call.s)]
  /\ UNCHANGED <<OSM_DISABLED, OPENMAP_API_KEY, csv_file, csv_cache, osm_cache, heap,
                 trips, fr, tripped, workers, started, match>>

NextNormalize == NormalizeText \/ NormalizeAgain \/ Tokenize

SpecNormalize == InitNormalize /\ [][NextNormalize]_vars

\* ------------------------------------------------------------------------
\* Properties of find_best_match
\* ------------------------------------------------------------------------
StopTokens == generic_prefixes
TokenSet(text) == Range(tokenize(text))
IsSuperset(R, Q) == \A q \in Q : q \in R
EightyPercent(A, B) ==
  LET a == A \ StopTokens
      b == B \ StopTokens
      small == IF Cardinality(a) <= Cardinality(b) THEN Cardinality(a) ELSE Cardinality(b)
  IN a # {} /\ b # {} /\ Cardinality(a \cap b) * 5 >= small * 4

Returned == match.phase = "returned"

\* C7: a row returned by find_best_match satisfies the strict strategy (its
\* tokens are a superset of the query's) or the flexible one (the stop-token
\* reduced sets are non-empty and overlap by at least 80% of the smaller);
\* a query without tokens returns none.
C7_ReturnedRowMatches ==
  Returned =>
    /\ match.result # NoneDict =>
         \/ IsSuperset(TokenSet(get_row_name(match.result)), TokenSet(match.name))
         \/ EightyPercent(TokenSet(match.name), TokenSet(get_row_name(match.result)))
    /\ TokenSet(match.name) = {} => match.result = NoneDict

\* a row was returned on the flexible strategy alone, with an overlap smaller
\* than the smaller reduced set
C7_Witness ==
  /\ Returned
  /\ match.result # NoneDict
  /\ ~IsSuperset(TokenSet(get_row_name(match.result)), TokenSet(match.name))
  /\ Cardinality((TokenSet(match.name) \cap TokenSet(get_row_name(match.result))) \ StopTokens)
       < Cardinality(TokenSet(match.name) \ StopTokens)
  /\ Cardinality((TokenSet(match.name) \cap TokenSet(get_row_name(match.result))) \ StopTokens)
       < Cardinality(TokenSet(get_row_name(match.result)) \ StopTokens)

Accepted == strict_candidates(match.name, match.rows)
ScoreOf(row) == RowScore(match.name, row)
IsTopScore(row) == \A i \in DOMAIN Accepted : FracGe(ScoreOf(row), ScoreOf(Accepted[i]))

\* C8: one accepted row is returned whatever its score; of two or more the
\* row with the highest score is returned when that score reaches minScore,
\* and none otherwise.
C8_ThresholdRule ==
  Returned =>
    /\ Len(Accepted) = 1 => match.result = Accepted[1]
    /\ Len(Accepted) >= 2 =>
         IF \E i \in DOMAIN Accepted : FracGe(ScoreOf(Accepted[i]), match.min_score)
           THEN /\ \E i \in DOMAIN Accepted : match.result = Accepted[i]
                /\ IsTopScore(match.result)
           ELSE match.result = NoneDict

\* the single accepted row came back with a score below minScore
C8_Witness ==
  /\ Returned
  /\ Len(Accepted) = 1
  /\ match.result = Accepted[1]
  /\ ~FracGe(ScoreOf(match.result), match.min_score)

\* two rows were accepted and none returned, the best score being too low
C8_WitnessNone ==
  /\ Returned
  /\ Len(Accepted) >= 2
  /\ match.result = NoneDict

\* ------------------------------------------------------------------------
\* Properties of the pipeline
\* ------------------------------------------------------------------------
\* the thread is inside resolve_location_by_name, past its first step
InResolve(t) ==
  fr[t].pc \in {"search", "variant", "openmap_wait", "nominatim", "nominatim_wait",
                "filter", "resolved"}

\* C1: a query_nominatim call started after some call received a 403 issues
\* no HTTP request and returns the empty list.
C1_BreakerShortCircuits ==
  \A t \in Threads :
    (fr[t].nom_called /\ fr[t].nom_tripped) =>
      /\ ~fr[t].nom_issued
      /\ fr[t].pc # "nominatim_wait"
      /\ fr[t].pc = "filter" => fr[t].data = EmptyData

\* a query_nominatim call that started after the trip has returned
C1_Witness ==
  \E t \in Threads :
    fr[t].pc = "filter" /\ fr[t].nom_called /\ fr[t].nom_tripped /\ fr[t].n_nominatim = 0

\* C2: with the breaker tripped, a search_osm_location call with the primary
\* provider configured and no memoised entry still queries the primary provider.
C2_PrimaryStillQueried ==
  \A t \in Threads :
    (/\ OSM_DISABLED
     /\ OPENMAP_API_KEY
     /\ fr[t].pc = "resolved"
     /\ fr[t].via \notin {"csv", "cache"}) => fr[t].n_openmap >= 1

\* C3: OSM_DISABLED starts false and, once true, stays true.
C3_BreakerMonotonic ==
  /\ OSM_DISABLED = FALSE
  /\ [][OSM_DISABLED => OSM_DISABLED']_vars

\* the flag is set while another query_nominatim call got its answer
C3_Witness ==
  /\ OSM_DISABLED
  /\ \E t \in Threads : fr[t].pc = "filter" /\ fr[t].nom_issued /\ ~fr[t].nom_tripped
  /\ \E t \in Threads : fr[t].via = "disabled"

\* C4: no provider failure leaves resolve_location_by_name as an exception:
\* the only exception a request ends with is the missing dataset.
C4_NoProviderFailurePropagates ==
  \A t \in Threads : fr[t].pc = "raised" => fr[t].exc = "FileNotFoundError"

\* C5: the names of the records extract_locations_from_answer returns are
\* pairwise distinct.
C5_DistinctNames ==
  \A t \in Threads :
    (fr[t].pc = "done" /\ fr[t].op = "extract") =>
      \A i, j \in DOMAIN fr[t].result :
        i # j => fr[t].result[i].name # fr[t].result[j].name

\* two candidates resolved to the same name and one record was returned
C5_Witness ==
  \E t \in Threads :
    /\ fr[t].pc = "done" /\ fr[t].op = "extract"
    /\ fr[t].dups >= 1
    /\ Len(fr[t].names) = 2 /\ Len(fr[t].result) = 1

\* the region tokens of a hint: its parts, normalised, the country dropped
RegionTokens(hint) ==
  LET raw == SplitOnChars(hint, {",", "/", "|", "-"})
  IN {_norm(Strip(raw[i])) : i \in DOMAIN raw} \ {viet_nam}

\* the normalised text of an item: display name and address field values
CombinedText(item) ==
  LET vals == SelectSeq(item.address, LAMBDA v : v # None /\ v # <<>>)
  IN Strip(Lower(StripMarks(JoinSpace(<<item.display_name>> \o vals))))

Qualifies(item, hint) ==
  \A tok \in RegionTokens(hint) : Contains(CombinedText(item), tok)

\* C6: a record returned by search_osm_location under a region hint was built
\* from a provider result whose combined text contains every region token;
\* when no result of a variant qualifies the search moves to the next variant.
C6_RegionFilter ==
  /\ [](\A t \in Threads :
          (fr[t].chosen # NoneDict /\ fr[t].region_hint # None) =>
             Qualifies(fr[t].chosen, fr[t].region_hint))
  /\ [][\A t \in Threads :
          (/\ fr[t].pc = "filter"
           /\ fr[t].region_hint # None
           /\ fr[t].data.shape = "list"
           /\ \A i \in DOMAIN fr[t].data.items :
                 ~Qualifies(fr[t].data.items[i], fr[t].region_hint)
           /\ fr'[t] # fr[t])
          => /\ fr'[t].pc = "variant"
             /\ fr'[t].qi = fr[t].qi + 1
             /\ fr'[t].chosen = NoneDict]_vars

\* under the two-part hint the first result, which names one part only, was
\* passed over and the second one taken
C6_Witness ==
  \E t \in Threads :
    /\ fr[t].pc = "resolved"
    /\ Len(region_parts(fr[t].region_hint)) = 2
    /\ fr[t].chosen = Item_VungTau

\* the names the requests resolve and the texts a hint is derived from
ResolvedNames ==
  TravelNames(1) \cup UNION {Range(extract_candidate_names(a)) : a \in ChatAnswers(1)}
AddressNames == {n \in ResolvedNames : looks_like_address(n)}
HintTable ==
  {<<x, extract_region_hint_province(x)>> : x \in ResolvedNames \cup ChatAnswers(1)}
HintOf(x) == (CHOOSE p \in HintTable : p[1] = x)[2]
GazetteerTable ==
  {<<n, find_best_match(n, GazetteerFile, <<1, 2>>)>> : n \in ResolvedNames \ AddressNames}

\* C9: an address-like name never touches the gazetteer, carries the hint
\* derived from the context (from the name when there is no context), and a
\* record returned for it bears the original name.
C9_AddressBypassesGazetteer ==
  \A t \in Threads :
    (InResolve(t) /\ fr[t].name \in AddressNames) =>
      /\ ~fr[t].csv_used
      /\ fr[t].via # "csv"
      /\ fr[t].region_hint =
           HintOf(IF fr[t].context # None /\ fr[t].context # <<>> THEN fr[t].context
                  ELSE fr[t].name)
      /\ (fr[t].pc = "resolved" /\ fr[t].ret # NoneDict) => fr[t].ret.name = fr[t].name

\* the second, shorter variant of an address produced the record
C9_Witness ==
  \E t \in Threads :
    /\ fr[t].pc = "resolved" /\ fr[t].via = "providers" /\ fr[t].ret # NoneDict
    /\ fr[t].name \in AddressNames
    /\ fr[t].qi = 2 /\ fr[t].queries[2] # fr[t].name

\* the gazetteer's answer for the name the thread resolves
GazetteerRow(t) ==
  IF LoadedRows = GazetteerFile
    THEN (CHOOSE p \in GazetteerTable : p[1] = fr[t].name)[2]
    ELSE find_best_match(fr[t].name, LoadedRows, <<1, 2>>)
HasBothCoordinates(row) ==
  row # NoneDict /\ get_lat_lng(row)[1] # None /\ get_lat_lng(row)[2] # None

GazetteerHit(t) ==
  /\ fr[t].via = "csv" /\ fr[t].pc = "resolved"
  /\ fr[t].ret.source = "csv"
  /\ fr[t].ret.name = get_row_name(GazetteerRow(t))
  /\ fr[t].ret.lat = get_lat_lng(GazetteerRow(t))[1]
  /\ fr[t].ret.lng = get_lat_lng(GazetteerRow(t))[2]
  /\ fr[t].n_openmap = 0 /\ fr[t].n_nominatim = 0

\* C10 as stated: a non-address name with a gazetteer row with both
\* coordinates returns the gazetteer record without any provider call; else
\* it goes to the provider chain with the hint derived from the context text.
C10_HintFromContext ==
  \A t \in Threads :
    (InResolve(t) /\ fr[t].name \in ResolvedNames \ AddressNames) =>
      IF HasBothCoordinates(GazetteerRow(t))
        THEN GazetteerHit(t)
        ELSE /\ fr[t].via # "csv"
             /\ fr[t].region_hint =
                  IF fr[t].context = None THEN None ELSE HintOf(fr[t].context)

\* C10 amended: the hint of the fallback is derived from the context text
\* when one is given and from the name itself when none is given.
C10_GazetteerFirst ==
  \A t \in Threads :
    (InResolve(t) /\ fr[t].name \in ResolvedNames \ AddressNames) =>
      IF HasBothCoordinates(GazetteerRow(t))
        THEN GazetteerHit(t)
        ELSE /\ fr[t].via # "csv"
             /\ fr[t].region_hint =
                  IF fr[t].context # None /\ fr[t].context # <<>>
                    THEN HintOf(fr[t].context)
                    ELSE HintOf(fr[t].name)

\* a name the gazetteer does not resolve, given without context, is searched
\* under the hint found in the name itself
C10_Witness ==
  \E t \in Threads :
    /\ InResolve(t) /\ fr[t].pc = "variant"
    /\ fr[t].name \in ResolvedNames \ AddressNames
    /\ fr[t].context = None
    /\ fr[t].csv_used
    /\ fr[t].region_hint # None

\* a name the gazetteer resolves came back as the gazetteer record
C10_WitnessHit ==
  \E t \in Threads : InResolve(t) /\ fr[t].via = "csv" /\ fr[t].ret.source = "csv"

\* C11: with the dataset file missing extract_locations_from_answer raises
\* for every text, the failed load is not memoised, and the missing dataset
\* is the only failure extract_locations_from_answer ever raises.
C11_OnlyMissingDatasetRaises ==
  \A t \in Threads :
    fr[t].op = "extract" =>
      /\ csv_file = Missing =>
           (fr[t].pc = "raised" /\ fr[t].exc = "FileNotFoundError" /\ csv_cache = NotLoaded)
      /\ fr[t].pc = "raised" => fr[t].exc = "FileNotFoundError"

\* C12: a candidate that resolves to none is skipped and the loop goes on:
\* a finished extraction has handed every candidate to the resolver, returns
\* records of candidates that resolved, and returns the empty list when
\* nothing was extracted or nothing resolved.
C12_PartialResults ==
  /\ [](\A t \in Threads :
          (fr[t].op = "extract" /\ fr[t].pc = "done") =>
            /\ fr[t].idx = Len(fr[t].names) + 1
            /\ Len(fr[t].matched) + fr[t].dups + fr[t].misses = Len(fr[t].names)
            /\ \A i \in DOMAIN fr[t].result :
                 \E k \in DOMAIN fr[t].matched :
                   /\ fr[t].matched[k].idx = fr[t].result_idx[i]
                   /\ fr[t].matched[k].loc.name = fr[t].result[i].name
            /\ fr[t].matched = <<>> => fr[t].result = <<>>)
  /\ [][\A t \in Threads :
          (/\ fr[t].op = "extract" /\ fr[t].pc = "resolved"
           /\ fr[t].ret = NoneDict
           /\ fr'[t] # fr[t])
          => /\ fr'[t].pc = "loop"
             /\ fr'[t].idx = fr[t].idx + 1
             /\ fr'[t].matched = fr[t].matched]_vars

\* the first candidate resolved to none and the second one was returned
C12_Witness ==
  \E t \in Threads :
    /\ fr[t].op = "extract" /\ fr[t].pc = "done"
    /\ fr[t].misses = 1
    /\ fr[t].result_idx = <<2>>

\* an answer without candidates gave the empty list
C12_WitnessEmpty ==
  /\ \E t \in Threads :
       fr[t].op = "extract" /\ fr[t].pc = "done" /\ fr[t].names = <<>> /\ fr[t].result = <<>>

\* the raw candidate of a resolved record contains a landmark keyword
IsLandmark(m) == \E i \in DOMAIN landmark_keywords : Contains(m.cand, landmark_keywords[i])

\* the raw candidate substring-matches an entry of the exclusion list
IsGenericCity(m) ==
  \E i \in DOMAIN generic_patterns :
    \/ Contains(Lower(m.cand), Lower(generic_patterns[i]))
    \/ Contains(Lower(generic_patterns[i]), Lower(m.cand))

\* the candidate indices the post-filter is to return for the resolved records
ExpectedIdx(matched) ==
  LET kept == IF Len(matched) > 1 /\ \E i \in DOMAIN matched : IsLandmark(matched[i])
                THEN SelectSeq(matched, LAMBDA m : IsLandmark(m) \/ ~IsGenericCity(m))
                ELSE matched
  IN [i \in DOMAIN kept |-> kept[i].idx]

\* C13: with more than one resolved record and a landmark keyword in some
\* raw candidate, the output is exactly the landmark records plus the records
\* whose raw candidate is no generic city; else nothing is dropped.
C13_PostFilter ==
  \A t \in Threads :
    (fr[t].op = "extract" /\ fr[t].pc = "done") =>
      fr[t].result_idx = ExpectedIdx(fr[t].matched)

\* sequentially the generic record of A_Pagoda is dropped
C13_Dropped ==
  \E t \in Threads :
    /\ fr[t].op = "extract" /\ fr[t].pc = "done"
    /\ Len(fr[t].matched) = 2 /\ fr[t].result_idx = <<1>>

\* C14: when at least one candidate resolved to a record, the list
\* extract_locations_from_answer returns is not empty.
C14_NeverEmptied ==
  \A t \in Threads :
    (fr[t].op = "extract" /\ fr[t].pc = "done" /\ fr[t].matched # <<>>) =>
      fr[t].result # <<>>

\* the filter loop ran and kept nothing, and the unfiltered list came back:
\* a record whose raw candidate is a generic city is among the results of a
\* request that had seen a landmark
C14_Witness ==
  \E t \in Threads :
    /\ fr[t].op = "extract" /\ fr[t].pc = "done"
    /\ fr[t].has_landmark
    /\ \E k \in DOMAIN fr[t].matched :
         /\ IsGenericCity(fr[t].matched[k]) /\ ~IsLandmark(fr[t].matched[k])
         /\ \E i \in DOMAIN fr[t].result_idx : fr[t].result_idx[i] = fr[t].matched[k].idx

\* C15: the returned records are in the order of their raw candidates in the
\* extract_candidate_names list; deduplication and post-filter reorder nothing.
C15_OutputOrder ==
  \A t \in Threads :
    (fr[t].op = "extract" /\ fr[t].pc \in {"loop", "post", "post_filter", "done"}) =>
      /\ \A i, j \in DOMAIN fr[t].matched :
           i < j => fr[t].matched[i].idx < fr[t].matched[j].idx
      /\ \A i \in DOMAIN fr[t].matched :
           fr[t].matched[i].cand = fr[t].names[fr[t].matched[i].idx]
      /\ \A i, j \in DOMAIN fr[t].result_idx :
           i < j => fr[t].result_idx[i] < fr[t].result_idx[j]
      /\ Len(fr[t].result) = Len(fr[t].result_idx)

\* two records came back after the filter loop ran, the landmark second
C15_Witness ==
  \E t \in Threads :
    /\ fr[t].op = "extract" /\ fr[t].pc = "done"
    /\ fr[t].has_landmark
    /\ fr[t].result_idx = <<1, 2>>
    /\ ~IsLandmark(fr[t].matched[1]) /\ IsLandmark(fr[t].matched[2])
    /\ fr[t].result[1].source = "csv"

\* the memo entry for the search the thread makes
EntryOf(t) ==
  LET i == CacheIndex(osm_cache, CacheKey(fr[t].name, fr[t].region_hint))
  IN IF i = 0 THEN NoneDict ELSE osm_cache[i]

C16_WitnessNone ==
  \E t \in Threads :
    /\ fr[t].pc = "resolved" /\ fr[t].via = "cache" /\ fr[t].ref = 0
    /\ fr[t].ret = NoneDict

\* C17: a record is not changed after it was returned: a record that a
\* resolve call gets from the memo has the field values it had when it was
\* returned first, and no tracking key of an extraction on it.
C17_RecordsImmutable ==
  \A t \in Threads :
    (fr[t].pc = "resolved" /\ fr[t].via = "cache" /\ fr[t].ref # 0) =>
      /\ heap[fr[t].ref].dict = heap[fr[t].ref].born
      /\ fr[t].op = "resolve" => heap[fr[t].ref]._original_candidate = None


\* C18: the breaker trip is recorded and logged once per process: the 403
\* branch of query_nominatim runs at most once, also when several
\* resolutions are in flight to Nominatim when it starts answering 403.
C18_TripOnce == trips <= 1


\* a record with both coordinates read as numbers
BothCoordinates(rec) ==
  /\ rec.lat # None /\ IsFloatText(rec.lat)
  /\ rec.lng # None /\ IsFloatText(rec.lng)

\* C19: every record returned by resolve_location_by_name or by
\* extract_locations_from_answer has both lat and lng as parsed numbers, and
\* a gazetteer row without two parsable coordinates never becomes a record.
C19_BothCoordinates ==
  \A t \in Threads :
    /\ (fr[t].pc = "resolved" /\ fr[t].ret # NoneDict) =>
         /\ BothCoordinates(fr[t].ret)
         /\ fr[t].ret.source = "csv" => HasBothCoordinates(GazetteerRow(t))
    /\ fr[t].pc = "done" =>
         \A i \in DOMAIN fr[t].result :
           fr[t].result[i] # NoneDict => BothCoordinates(fr[t].result[i])

\* the gazetteer row matched but has one coordinate only, and the name came
\* back as a provider record with both
C19_Witness ==
  \E t \in Threads :
    /\ fr[t].pc = "resolved" /\ fr[t].csv_used /\ fr[t].via = "providers"
    /\ fr[t].ret # NoneDict /\ fr[t].ret.source # "csv"
    /\ get_lat_lng(GazetteerRow(t))[1] = None
    /\ get_lat_lng(GazetteerRow(t))[2] # None

\* an extraction returned records
C19_WitnessList ==
  \E t \in Threads :
    fr[t].pc = "done" /\ fr[t].op = "extract" /\ Len(fr[t].result) >= 2


\* the provider calls of the search a thread is in, against the variants
SearchBounded(t) ==
  /\ Len(fr[t].queries) <= 5
  /\ fr[t].qi <= Len(fr[t].queries) + 1
  /\ fr[t].n_openmap <= fr[t].qi /\ fr[t].n_openmap <= Len(fr[t].queries)
  /\ fr[t].n_nominatim <= fr[t].qi /\ fr[t].n_nominatim <= Len(fr[t].queries)

\* a thread at a provider is at the first call of that provider for the
\* variant it is trying
FirstCallOfVariant(t) ==
  /\ fr[t].pc = "openmap_wait" => fr[t].n_openmap <= fr[t].qi
  /\ fr[t].pc = "nominatim_wait" => fr[t].n_nominatim <= fr[t].qi

\* C20: every request terminates when every HTTP call is answered: a search
\* tries at most five variants, each variant calls each provider at most
\* once, a variant is never tried again, and every started request ends
\* (with its result or with an exception).
C20_Terminates ==
  /\ [](\A t \in Threads : SearchBounded(t) /\ FirstCallOfVariant(t))
  /\ [][\A t \in Threads :
          (fr[t].pc \in {"variant", "openmap_wait", "nominatim", "nominatim_wait", "filter"}
             /\ fr'[t].pc \in {"variant", "openmap_wait", "nominatim", "nominatim_wait", "filter"})
            => fr'[t].qi >= fr[t].qi /\ fr'[t].qi <= fr[t].qi + 1]_vars
  /\ \A t \in Threads : (fr[t].pc # "idle") ~> (fr[t].pc \in {"done", "raised"})

\* an extraction whose candidate went through two variants and both
\* providers' chain ended
C20_Witness ==
  \E t \in Threads :
    /\ fr[t].op = "extract" /\ fr[t].pc = "resolved"
    /\ Len(fr[t].queries) >= 2 /\ fr[t].qi > Len(fr[t].queries)
    /\ fr[t].n_nominatim = Len(fr[t].queries)


\* ------------------------------------------------------------------------
\* Properties of generate_recommendation
\* ------------------------------------------------------------------------
\* the documents of a list whose loc_id is, or is not, in the history
PlacesOf(docs, ids, seen) ==
  SelectSeq(docs, LAMBDA d : (d.loc_id \in Range(ids)) = seen)

\* C21: the result of generate_recommendation partitions the retrieved
\* documents by the history: new_places holds no visited loc_id, old_places
\* only visited ones, and filtered_count is 0 when revisits are allowed or
\* the history is empty, and the number of old_places otherwise.
C21_Partition ==
  call.pc = "returned" =>
    LET r == call.result
        ids == call.user_visited_ids
    IN /\ \A k \in DOMAIN r.new_places : r.new_places[k].loc_id \notin Range(ids)
       /\ \A k \in DOMAIN r.old_places : r.old_places[k].loc_id \in Range(ids)
       /\ r.new_places = PlacesOf(call.retrieved_docs, ids, FALSE)
       /\ r.old_places = PlacesOf(call.retrieved_docs, ids, TRUE)
       /\ (call.allow_revisit \/ ids = <<>>) => r.filtered_count = 0
       /\ ~call.allow_revisit => r.filtered_count = Len(r.old_places)

\* a call with a history and without revisits that filtered a document out
\* and still had places to recommend
C21_Witness ==
  /\ call.pc = "returned" /\ ~call.allow_revisit
  /\ call.result.filtered_count >= 1 /\ Len(call.result.new_places) >= 1
  /\ Len(call.user_visited_ids) = 2

\* a call whose documents were all visited returned at once, without the LLM
C21_WitnessAllVisited ==
  /\ call.pc = "returned" /\ call.result.final_response = NoPlacesResponse
  /\ Len(call.result.old_places) >= 2


\* a row that passes the strict test for the name of the call
StrictRow(row) ==
  /\ get_row_name(row) # <<>>
  /\ TokenSet(match.name) # {}
  /\ IsSuperset(TokenSet(get_row_name(row)), TokenSet(match.name))

\* C22: flexible matching is a fallback pass: when some row of the gazetteer
\* matches strictly, every accepted candidate, and so the row returned, is a
\* strict match.
C22_FlexibleOnlyAsFallback ==
  (Returned /\ \E i \in DOMAIN match.rows : StrictRow(match.rows[i])) =>
    LET cands == strict_candidates(match.name, match.rows)
    IN /\ \A k \in DOMAIN cands : StrictRow(cands[k])
       /\ match.result # NoneDict => StrictRow(match.result)


\* ------------------------------------------------------------------------
\* Properties of the variant loop of search_osm_location
\* ------------------------------------------------------------------------
\* the variant lists of the names the requests resolve, written out
VariantTable ==
  { <<T_Guom, <<T_Guom>>>>,
    <<T_HoGuom, <<T_HoGuom>>>>,
    <<T_ChoVungTau, <<T_ChoVungTau>>>>,
    <<T_ChuaHuong, <<T_ChuaHuong, <<"H","u^","o^","n","g">>>>>>,
    <<T_Address, <<T_Address, <<"1","2"," ","L","y^">>>>>>,
    <<T_BaHue, <<T_BaHue, <<"B","a">>>>>>,
    <<T_ChuaAB,
      <<T_ChuaAB,
        <<"A","-","B"," ","-"," ","C",","," ","H","u","e^">>,
        <<"C","h","u^","a"," ","A","-","B">>,
        <<"C","h","u^","a"," ","A">>,
        <<"C","h","u^","a"," ","A","-","B"," ","-"," ","C">>>>>> }
VariantsOf(name) == (CHOOSE p \in VariantTable : p[1] = name)[2]

InVariantLoop(t) ==
  fr[t].pc \in {"variant", "openmap_wait", "nominatim", "nominatim_wait", "filter"}

AtProvider(t) ==
  fr[t].pc \in {"openmap_wait", "nominatim", "nominatim_wait", "filter"}

\* the variants up to the current one that are long enough to be sent
Sendable(t) ==
  Cardinality({i \in DOMAIN fr[t].queries :
                 i <= fr[t].qi /\ Len(fr[t].queries[i]) >= 3})

\* the answer in hand holds an item the coordinate check and the region
\* filter accept
HasAccepted(t) ==
  /\ fr[t].pc = "filter" /\ ~data_falsy(fr[t].data) /\ fr[t].data.shape = "list"
  /\ choose_item(fr[t].data.items, region_parts(fr[t].region_hint)) # NoneDict

\* C23: the variants are the raw name, the name without its prefix, the part
\* before " - ", before "-" and before ",", without repetitions; a variant
\* shorter than 3 characters goes to no provider; the first variant with an
\* accepted result ends the search and no later variant is queried.
C23_VariantOrder ==
  /\ [](\A t \in Threads :
          /\ (InVariantLoop(t) \/ (fr[t].pc = "resolved" /\ fr[t].via = "providers")) =>
               /\ fr[t].queries = VariantsOf(fr[t].name)
               /\ fr[t].n_openmap <= Sendable(t)
               /\ fr[t].n_nominatim <= Sendable(t)
          /\ AtProvider(t) => Len(fr[t].queries[fr[t].qi]) >= 3
          /\ (fr[t].pc = "resolved" /\ fr[t].via = "providers" /\ fr[t].ret # NoneDict) =>
               fr[t].qi <= Len(fr[t].queries))
  /\ [][\A t \in Threads :
          /\ (HasAccepted(t) /\ fr'[t] # fr[t]) =>
               /\ fr'[t].pc = "resolved" /\ fr'[t].ret # NoneDict
               /\ fr'[t].qi = fr[t].qi
               /\ fr'[t].n_openmap = fr[t].n_openmap
               /\ fr'[t].n_nominatim = fr[t].n_nominatim
          /\ (InVariantLoop(t) /\ fr'[t].pc = "variant" /\ fr'[t] # fr[t]) =>
               /\ ~HasAccepted(t)
               /\ fr'[t].qi = fr[t].qi + 1]_vars

\* the third variant of a five-variant name gave the record, after the
\* first two gave none
C23_Witness ==
  \E t \in Threads :
    /\ fr[t].pc = "resolved" /\ fr[t].via = "providers" /\ fr[t].ret # NoneDict
    /\ Len(fr[t].queries) = 5 /\ fr[t].qi = 3 /\ fr[t].n_nominatim = 3

\* the two-character variant was passed over: one call for two variants
C23_WitnessShort ==
  \E t \in Threads :
    /\ fr[t].pc = "resolved" /\ fr[t].via = "providers"
    /\ fr[t].name = T_BaHue /\ fr[t].qi = 3 /\ fr[t].n_nominatim = 1


\* C24: the text sent to a provider for a variant is the variant followed by
\* exactly one context component: the region hint when there is one, else
\* the default country context.
C24_QueryText ==
  \A t \in Threads :
    AtProvider(t) =>
      fr[t].query_text =
        fr[t].queries[fr[t].qi] \o <<",", " ">> \o
          (IF fr[t].region_hint # None /\ fr[t].region_hint # <<>>
             THEN fr[t].region_hint ELSE DEFAULT_OSM_CONTEXT)


\* C24 as the code has it: the text is the variant, then the region hint
\* when there is one, then the default country context, joined by ", ".
C24_QueryTextWithCountry ==
  \A t \in Threads :
    AtProvider(t) =>
      fr[t].query_text =
        fr[t].queries[fr[t].qi] \o <<",", " ">> \o
          (IF fr[t].region_hint # None /\ fr[t].region_hint # <<>>
             THEN fr[t].region_hint \o <<",", " ">> \o DEFAULT_OSM_CONTEXT
             ELSE DEFAULT_OSM_CONTEXT)

\* a second variant was sent under a hint
C24_Witness ==
  \E t \in Threads :
    /\ fr[t].pc = "nominatim_wait" /\ fr[t].qi = 2
    /\ fr[t].region_hint = T_Hue
    /\ fr[t].query_text = fr[t].queries[2] \o <<",", " ">> \o T_Hue \o <<",", " ">> \o DEFAULT_OSM_CONTEXT

\* a variant was sent without a hint
C24_WitnessNoHint ==
  \E t \in Threads :
    /\ fr[t].pc = "nominatim_wait" /\ fr[t].region_hint = None
    /\ fr[t].query_text = fr[t].queries[fr[t].qi] \o <<",", " ">> \o DEFAULT_OSM_CONTEXT


\* the thread is in query_nominatim, or about to call it
AtFallback(t) == fr[t].pc \in {"nominatim", "nominatim_wait"}

C25_WitnessPrimary ==
  \E t \in Threads :
    /\ fr[t].pc = "resolved" /\ fr[t].via = "providers"
    /\ fr[t].ret # NoneDict /\ fr[t].ret.source = "openmap_vn"
    /\ fr[t].n_nominatim = 0


\* ------------------------------------------------------------------------
\* Properties of extract_region_hint_province
\* ------------------------------------------------------------------------
\* the names of a list that occur in the text, both sides lowercased and
\* without accents
Occurring(text, names) ==
  {i \in DOMAIN names :
     /\ StripMarks(Lower(names[i])) # <<>>
     /\ Contains(StripMarks(Lower(text)), StripMarks(Lower(names[i])))}

Aliases == [i \in DOMAIN PROVINCE_SYNONYMS |-> PROVINCE_SYNONYMS[i][1]]

\* C26: a province name that occurs in the text wins over every synonym and
\* tourism city, wherever they stand; a synonym's province is returned only
\* when no province name occurs, a tourism city only when neither a province
\* name nor a synonym occurs, and none when nothing occurs or the text is
\* empty.
C26_HintPrecedence ==
  call.pc = "returned" =>
    LET P == Occurring(call.answer, VIETNAM_PROVINCES)
        A == Occurring(call.answer, Aliases)
        C == Occurring(call.answer, VIETNAM_TOURISM_CITIES)
    IN IF call.answer = <<>> THEN call.result = None
       ELSE IF P # {} THEN \E i \in P : call.result = VIETNAM_PROVINCES[i]
       ELSE IF A # {} THEN \E i \in A : call.result = PROVINCE_SYNONYMS[i][2]
       ELSE IF C # {} THEN \E i \in C : call.result = VIETNAM_TOURISM_CITIES[i]
       ELSE call.result = None

\* a text that starts with a tourism city and a synonym and names a
\* province last gave the province
C26_Witness ==
  /\ call.pc = "returned"
  /\ call.answer = JoinSpace(<<T_DaLat, T_SaiGon, T_TayNinh>>)
  /\ call.result = T_TayNinh

\* a synonym before a tourism city, without a province: the synonym's province
C26_WitnessSynonym ==
  /\ call.pc = "returned"
  /\ call.answer = JoinSpace(<<T_DaLat, T_Cho, T_VungTau>>)
  /\ call.result = PROVINCE_SYNONYMS[6][2]


\* ------------------------------------------------------------------------
\* Properties of looks_like_address
\* ------------------------------------------------------------------------
HasDigit(text) == \E i \in DOMAIN text : text[i] \in Digits
HasOldQuarter(text) == \E p \in old_quarter : Contains(Lower(text), p)
HasStreetKeyword(text) ==
  \E i \in DOMAIN street_keywords : Contains(Lower(text), street_keywords[i])

\* C27: a text with a digit is an address, also with the old-quarter phrase
\* in it; a text without digits and with the old-quarter phrase is not, also
\* with a street keyword in it; any other text is an address exactly when
\* it holds a street keyword; the empty text is not an address.
C27_AddressRules ==
  call.pc = "returned" =>
    /\ HasDigit(call.query) => call.result = TRUE
    /\ (~HasDigit(call.query) /\ HasOldQuarter(call.query)) => call.result = FALSE
    /\ (~HasDigit(call.query) /\ ~HasOldQuarter(call.query)) =>
         call.result = HasStreetKeyword(call.query)
    /\ call.query = <<>> => call.result = FALSE

\* a house number next to the old-quarter phrase: an address
C27_Witness ==
  /\ call.pc = "returned" /\ call.result = TRUE
  /\ call.query = JoinSpace(<<T_PhoCoAccents, T_12>>)

\* the old-quarter phrase next to a keyword, no digit: not an address
C27_WitnessQuarter ==
  /\ call.pc = "returned" /\ call.result = FALSE
  /\ call.query = JoinSpace(<<T_Quan, T_PhoCo>>)


\* ------------------------------------------------------------------------
\* Properties of normalize_text and tokenize
\* ------------------------------------------------------------------------
\* C28: normalize_text returns a text for every input, the empty one
\* included, and applying it to its own result changes nothing; tokenize of
\* the empty text is the empty list.
C28_Idempotent ==
  /\ call.pc \in {"once", "twice"} =>
       /\ call.once \in Seq(Range(LowerAlpha) \cup Digits \cup {" "})
       /\ call.s = <<>> => call.once = <<>>
  /\ call.pc = "twice" => call.twice = call.once
  /\ (call.pc = "tokenized" /\ call.s = <<>>) => call.tokens = <<>>

\* a text whose normal form differs from it, normalised twice
C28_Witness ==
  /\ call.pc = "twice"
  /\ call.s = <<"U^", ",", "1">>
  /\ call.twice = <<"u", " ", "1">>

\* the empty text, tokenized
C28_WitnessEmpty == call.pc = "tokenized" /\ call.s = <<>> /\ call.tokens = <<>>


\* ------------------------------------------------------------------------
\* The tracking key and the returned records
\* ------------------------------------------------------------------------
\* C29: no record of a list that extract_locations_from_answer has returned
\* holds the key _original_candidate, also when another request resolves
\* the same candidate through the memo at the same time.
C29_NoTrackingField ==
  \A t \in Threads :
    (fr[t].op = "extract" /\ fr[t].pc = "done") =>
      \A i \in DOMAIN fr[t].result_ref :
        fr[t].result_ref[i] # 0 =>
          heap[fr[t].result_ref[i]]._original_candidate = None


\* ------------------------------------------------------------------------
\* The two providers within one variant
\* ------------------------------------------------------------------------
\* the answer in hand came from the primary provider, holds items, and the
\* coordinate check or the region filter rejects every one of them
PrimaryAllRejected(t) ==
  /\ fr[t].pc = "filter" /\ fr[t].source_label = "openmap_vn"
  /\ fr[t].data.items # <<>>
  /\ \A i \in DOMAIN fr[t].data.items :
       \/ parse_float(fr[t].data.items[i].lat) = None
       \/ parse_float(fr[t].data.items[i].lon) = None
       \/ ~item_accepted(fr[t].data.items[i], region_parts(fr[t].region_hint))

\* C30: when the primary provider returned a non-empty list for a variant,
\* the fallback provider is not queried for that variant, also when every
\* item of the list is rejected; the search goes on with the next variant.
C30_ProvidersAlternative ==
  [][\A t \in Threads :
       /\ (fr[t].pc = "openmap_wait" /\ fr'[t].pc # "openmap_wait") =>
            \/ /\ fr'[t].pc = "filter" /\ fr'[t].data.items # <<>>
               /\ fr'[t].n_nominatim = fr[t].n_nominatim
            \/ fr'[t].pc = "nominatim" /\ data_falsy(fr'[t].data)
       /\ (PrimaryAllRejected(t) /\ fr'[t] # fr[t]) =>
            /\ fr'[t].pc = "variant"
            /\ fr'[t].qi = fr[t].qi + 1
            /\ fr'[t].n_nominatim = fr[t].n_nominatim]_vars

\* the first variant is behind, the primary provider was asked once, the
\* fallback never, and the fallback was never switched off: the primary's
\* items were all rejected
C30_Witness ==
  \E t \in Threads :
    /\ OPENMAP_API_KEY /\ ~OSM_DISABLED /\ trips = 0
    /\ fr[t].pc = "variant" /\ fr[t].qi = 2
    /\ fr[t].n_openmap = 1 /\ fr[t].n_nominatim = 0

\* every item of the primary's answer fails the coordinate check
C30_WitnessCoordinates ==
  \E t \in Threads :
    /\ PrimaryAllRejected(t)
    /\ \A i \in DOMAIN fr[t].data.items : parse_float(fr[t].data.items[i].lat) = None

=============================================================================
